---- MODULE Spec2Model ----
(***************************************************************************)
(* RAML: retrieval-and-ranking pipeline for Smali malware analysis.        *)
(*                                                                         *)
(* Scores (vector similarity, LLM relevance, method confidence) are kept   *)
(* as integers in hundredths: 0.85 is 85, 1.0 is 100.                      *)
(* Texts built with f-strings or string concatenation are kept as          *)
(* sequences of their pieces.                                              *)
(***************************************************************************)
EXTENDS Integers, Sequences, FiniteSets, TLC

(***************************************************************************)
(* Bounds of the model.                                                    *)
(***************************************************************************)
\* number of distinct class names the similarity index may hold
NumClasses == 3
\* CONFIG["retrieval"]["top_k_classes"] (config.py:262, value 5), scaled down
top_k_classes == 2
\* number of documents the similarity index holds
MaxDocs == 3
\* CONFIG["retrieval"]["top_k_methods_per_class"] (config.py:263, value 10),
\* scaled down
top_k_methods_per_class == 2
\* most method blocks in one source file
MaxMethods == 2
\* most pieces of a class name after its package and outer class
MaxNamePieces == 4
\* documents the index may hold beyond the number a query asks for
ExtraIndexed == 2
\* most source files in one folder
MaxFiles == 3

\* longest attribution response, in lines
MaxLines == 6

\* number of analysis targets
NumTargets == 3
\* CONFIG["openai"]["concurrency_limit"] (config.py:251, value 16), scaled down
concurrency_limit == 2
\* stop_after_attempt(5) of the retry around generate_text (llm.py:28)
stop_after_attempt == 5
\* number of generate_text calls one gather dispatches
MaxRequests == 3

(***************************************************************************)
(* Program constants.                                                      *)
(***************************************************************************)
\* CONFIG["retrieval"]["relevance_threshold"] = 0.85
relevance_threshold_config == 85
\* BEHAVIOR_DESCRIPTIONS and BEHAVIOR_QUERIES have the keys 1..12
NumBehaviors == 12
\* async def load(self): the parameters of SmaliFolderLoader.load besides self
load_parameters == 0
\* self.loader.load(self.package_name): the arguments _create_vectorstore passes
load_arguments == 1

ClassNames == 1..NumClasses

\* the threshold values a deployment may configure
Thresholds == {0, relevance_threshold_config}

(***************************************************************************)
(* Stage 1: what the similarity index may answer.                          *)
(***************************************************************************)
\* k passed to similarity_search_with_score
initial_candidates == top_k_classes * 2

\* The score the index reports for the hit of rank i (best hit first).
RankScore(i) == 100 - 10 * i

Min(a, b) == IF a < b THEN a ELSE b

RECURSIVE SeqsUpTo(_, _)
SeqsUpTo(S, n) ==
    IF n = 0 THEN {<<>>}
    ELSE LET shorter == SeqsUpTo(S, n - 1)
         IN  shorter \cup {Append(s, x) : s \in {t \in shorter : Len(t) = n - 1}, x \in S}

\* similarity_search_with_score(query, k): at most k (doc, score) pairs in
\* rank order, no more than the index holds; several documents of the index
\* may carry the same class name.
SimilaritySearchResults(k) ==
    { [i \in 1..Len(names) |-> [class_name |-> names[i], score |-> RankScore(i)]] :
        names \in SeqsUpTo(ClassNames, Min(k, MaxDocs)) }

\* vectorstore.similarity_search_with_score(behavior_query, k=...) on an
\* index whose documents, best first for the query, carry the class names of
\* index: the k best hits, or all of them when the index holds fewer
similarity_search_with_score(index, k) ==
    [i \in 1..Min(k, Len(index)) |-> [class_name |-> index[i], score |-> RankScore(i)]]

(***************************************************************************)
(* Stage 2: deduplication, relevance assessment, threshold, ranking.       *)
(***************************************************************************)
\* f"L{doc.metadata['class_name']};"
ClassSignature(class_name) == <<"L", class_name, ";">>

\* the loop without its seen_signatures test
DedupFrom_KeepAll(docs, seen_signatures) == docs

RECURSIVE DedupFrom(_, _)
DedupFrom(docs, seen_signatures) ==
    IF docs = <<>> THEN <<>>
    ELSE LET class_signature == ClassSignature(Head(docs).class_name)
         IN  IF class_signature \in seen_signatures
             THEN DedupFrom(Tail(docs), seen_signatures)
             ELSE <<Head(docs)>> \o
                  DedupFrom(Tail(docs), seen_signatures \cup {class_signature})

\* the loop that fills filtered_docs_and_scores
filtered_docs_and_scores(docs_and_scores) == DedupFrom(docs_and_scores, {})

\* One line of a relevance-assessment response.  tag is the prefix the parser
\* tests with startswith ("other" for any line it ignores); for a Score line
\* ok says whether float() accepts the text after the colon and num is its
\* value; for the other lines text is the text after the colon, stripped.
\* float() also reads "inf" and "nan": Infinity stands for the float above every
\* number, NaN for the float every comparison with which is false.
Infinity == 1000000
NaN == -1000000
IsFinite(x) == x \notin {Infinity, NaN}

ScoreLine(n) == [tag |-> "Score:", ok |-> TRUE, num |-> n, text |-> ""]
BadScoreLine == [tag |-> "Score:", ok |-> FALSE, num |-> 0, text |-> "high"]
ExplanationLine(t) == [tag |-> "Explanation:", ok |-> FALSE, num |-> 0, text |-> t]
ApisLine(t) == [tag |-> "Relevant APIs:", ok |-> FALSE, num |-> 0, text |-> t]
OtherLine(t) == [tag |-> "other", ok |-> FALSE, num |-> 0, text |-> t]

\* What one llm.generate_text call ends in: the response text (its lines), or
\* the exception it raises once its retries are used up.
LLMText(lines) == [kind |-> "text", lines |-> lines]
LLMRaises == [kind |-> "raise", lines |-> <<>>]

\* a parse that leaves the score as it was when float() raises
ParseScore_KeepsPrevious(line, score) == IF line.ok THEN line.num ELSE score

\* try: score = float(line.split(':')[1].strip())  except: score = 0.0
ParseScore(line, score) == IF line.ok THEN line.num ELSE 0

RECURSIVE ParseRelevanceLines(_, _, _)
ParseRelevanceLines(lines, score, explanation) ==
    IF lines = <<>> THEN [score |-> score, explanation |-> explanation]
    ELSE LET line == Head(lines)
         IN  IF line.tag = "Score:"
             THEN ParseRelevanceLines(Tail(lines), ParseScore(line, score), explanation)
             ELSE IF line.tag = "Explanation:"
             THEN ParseRelevanceLines(Tail(lines), score, <<line.text>>)
             ELSE IF line.tag = "Relevant APIs:"
             THEN ParseRelevanceLines(Tail(lines), score,
                      IF line.text # "" /\ line.text # "None"
                      THEN explanation \o <<" Relevant APIs: ", line.text>>
                      ELSE explanation)
             ELSE ParseRelevanceLines(Tail(lines), score, explanation)

\* _assess_class_relevance: the (score, explanation) pair it returns.  Every
\* exception of the call is caught inside and answered with score 0.0.
assess_class_relevance(outcome, vector_score) ==
    IF outcome.kind = "raise"
    THEN [score |-> 0,
          explanation |-> <<"Error in assessment. Vector similarity score: ",
                            ToString(vector_score)>>]
    ELSE ParseRelevanceLines(outcome.lines, 0, <<"No explanation available.">>)

\* One entry of what asyncio.gather(..., return_exceptions=True) returns: the
\* value a coroutine returned, or the exception it raised.
GatherValue(v) == [exception |-> FALSE, value |-> v]
GatherException == [exception |-> TRUE, value |-> <<>>]

\* The orders in which n tasks handed to one gather may complete: order[r] is
\* the place, in the list given to gather, of the task that completed r-th.
CompletionOrders(n) ==
    {order \in [1..n -> 1..n] : \A a, b \in 1..n : a # b => order[a] # order[b]}

\* a collection that lists the entries as their tasks complete
Gather_AsCompleted(entries, order) ==
    [r \in 1..Len(entries) |-> entries[order[r]]]

\* await asyncio.gather(*tasks, return_exceptions=True): the list of the
\* entries in the order of the tasks given, whatever order they completed in
Gather(entries, order) == entries

\* a task list built from the answer of the index as it came
AssessmentTasks_PerDocument(docs_and_scores) == docs_and_scores

\* tasks: one _assess_class_relevance call per entry of
\* filtered_docs_and_scores, each told by the candidate it assesses
AssessmentTasks(docs_and_scores) == filtered_docs_and_scores(docs_and_scores)

\* relevance_results: one gather entry per deduplicated candidate, in order.
relevance_results(filtered, outcomes) ==
    [i \in 1..Len(filtered) |->
        GatherValue(assess_class_relevance(outcomes[i], filtered[i].score))]

\* the comparison with the boundary value left out
PassesThreshold_Strict(relevance_score, threshold) == relevance_score > threshold

\* relevance_score >= CONFIG["retrieval"]["relevance_threshold"]
PassesThreshold(relevance_score, threshold) ==
    relevance_score # NaN /\ relevance_score >= threshold

RECURSIVE re_ranked_results(_, _, _)
re_ranked_results(filtered, results, threshold) ==
    IF filtered = <<>> \/ results = <<>> THEN <<>>
    ELSE LET doc == Head(filtered)
             re_ranked_result == Head(results)
             rest == re_ranked_results(Tail(filtered), Tail(results), threshold)
         IN  IF re_ranked_result.exception THEN rest
             ELSE IF PassesThreshold(re_ranked_result.value.score, threshold)
             THEN <<[class_name |-> doc.class_name,
                     class_signature |-> ClassSignature(doc.class_name),
                     vector_similarity_score |-> doc.score,
                     llm_relevance_score |-> re_ranked_result.value.score,
                     explanation |-> re_ranked_result.value.explanation]>> \o rest
             ELSE rest

\* a sort that puts an element before the elements of equal key
RECURSIVE InsertByRelevance_BeforeEquals(_, _)
InsertByRelevance_BeforeEquals(sorted, x) ==
    IF sorted = <<>> THEN <<x>>
    ELSE IF Head(sorted).llm_relevance_score > x.llm_relevance_score
         THEN <<Head(sorted)>> \o InsertByRelevance_BeforeEquals(Tail(sorted), x)
         ELSE <<x>> \o sorted

\* list.sort(key=llm_relevance_score, reverse=True): stable, so an element
\* goes behind every element whose key is greater than or equal to its own.
RECURSIVE InsertByRelevance(_, _)
InsertByRelevance(sorted, x) ==
    IF sorted = <<>> THEN <<x>>
    ELSE IF Head(sorted).llm_relevance_score >= x.llm_relevance_score
         THEN <<Head(sorted)>> \o InsertByRelevance(Tail(sorted), x)
         ELSE <<x>> \o sorted

RECURSIVE SortFrom(_, _)
SortFrom(sorted, rest) ==
    IF rest = <<>> THEN sorted
    ELSE SortFrom(InsertByRelevance(sorted, Head(rest)), Tail(rest))

SortByRelevance(results) == SortFrom(<<>>, results)

\* s[:n]
Take(s, n) == SubSeq(s, 1, IF Len(s) < n THEN Len(s) ELSE n)

\* the list cut to top_k_classes before it is sorted
retrieve_classes_TruncateThenSort(docs_and_scores, outcomes, threshold) ==
    LET filtered == filtered_docs_and_scores(docs_and_scores)
    IN  SortByRelevance(
            Take(re_ranked_results(filtered, relevance_results(filtered, outcomes),
                                   threshold),
                 top_k_classes))

\* the sorted list returned without the cut to top_k_classes
retrieve_classes_Untruncated(docs_and_scores, outcomes, threshold) ==
    LET filtered == filtered_docs_and_scores(docs_and_scores)
    IN  SortByRelevance(
            re_ranked_results(filtered, relevance_results(filtered, outcomes),
                              threshold))

\* retrieve_classes_for_behavior from the stage-1 answer on: docs_and_scores is
\* what the index returned, outcomes[i] what the text-generation call of the
\* i-th deduplicated candidate ended in.
retrieve_classes_for_behavior(docs_and_scores, outcomes, threshold) ==
    LET filtered == filtered_docs_and_scores(docs_and_scores)
    IN  Take(SortByRelevance(
                 re_ranked_results(filtered, relevance_results(filtered, outcomes),
                                   threshold)),
             top_k_classes)

(***************************************************************************)
(* Method attribution.                                                     *)
(***************************************************************************)
\* One line of an attribution response, after line.strip(): tag is the prefix
\* the parser tests, text the stripped remainder; for a CONFIDENCE line ok
\* says whether int() accepts the remainder and num is its value.
MethodLine(t) == [tag |-> "METHOD:", ok |-> FALSE, num |-> 0, text |-> t]
RoleLine(t) == [tag |-> "ROLE:", ok |-> FALSE, num |-> 0, text |-> t]
ConfidenceLine(n) == [tag |-> "CONFIDENCE:", ok |-> TRUE, num |-> n, text |-> ""]
BadConfidenceLine == [tag |-> "CONFIDENCE:", ok |-> FALSE, num |-> 0, text |-> "high"]

\* a parser whose except branch leaves the score of the record at 0.0
ConfidenceScore_NoDefault(line) == IF line.ok THEN line.num ELSE 0

\* the try block of a CONFIDENCE line: int(...) / 100.0, and 0.5 when int()
\* raises.  In hundredths confidence / 100.0 is the confidence itself.
ConfidenceScore(line) == IF line.ok THEN line.num ELSE 50

\* current_method is <<>> for the empty dict and <<m>> for a started record.
RECURSIVE ParseMethodLines(_, _, _)
ParseMethodLines(lines, methods, current_method) ==
    IF lines = <<>> THEN methods \o current_method
    ELSE LET line == Head(lines)
         IN  IF line.tag = "METHOD:"
             THEN ParseMethodLines(Tail(lines), methods \o current_method,
                      <<[method_signature |-> line.text,
                         relevance_score |-> 0,
                         role_explanation |-> ""]>>)
             ELSE IF line.tag = "ROLE:" /\ current_method # <<>>
             THEN ParseMethodLines(Tail(lines), methods,
                      <<[current_method[1] EXCEPT !.role_explanation = line.text]>>)
             ELSE IF line.tag = "CONFIDENCE:" /\ current_method # <<>>
             THEN ParseMethodLines(Tail(lines), methods,
                      <<[current_method[1] EXCEPT
                            !.relevance_score = ConfidenceScore(line)]>>)
             ELSE ParseMethodLines(Tail(lines), methods, current_method)

\* a parser that leaves the records in the order of the response
InsertByScore_Unsorted(sorted, x) == Append(sorted, x)

\* methods.sort(key=relevance_score, reverse=True), stable
RECURSIVE InsertByScore(_, _)
InsertByScore(sorted, x) ==
    IF sorted = <<>> THEN <<x>>
    ELSE IF Head(sorted).relevance_score >= x.relevance_score
         THEN <<Head(sorted)>> \o InsertByScore(Tail(sorted), x)
         ELSE <<x>> \o sorted

RECURSIVE SortMethodsFrom(_, _)
SortMethodsFrom(sorted, rest) ==
    IF rest = <<>> THEN sorted
    ELSE SortMethodsFrom(InsertByScore(sorted, Head(rest)), Tail(rest))

\* a parser that starts with a record already open, so that ROLE and
\* CONFIDENCE lines before the first METHOD line fill a record of their own
parse_method_analysis_response_OpenRecord(lines) ==
    SortMethodsFrom(<<>>,
        ParseMethodLines(lines, <<>>,
            <<[method_signature |-> "", relevance_score |-> 0,
               role_explanation |-> ""]>>))

\* _parse_method_analysis_response
parse_method_analysis_response(lines) ==
    SortMethodsFrom(<<>>, ParseMethodLines(lines, <<>>, <<>>))

\* _analyze_methods_with_class_context: every exception of the call is
\* caught inside and answered with the empty list.
analyze_methods_with_class_context(outcome) ==
    IF outcome.kind = "raise" THEN <<>>
    ELSE parse_method_analysis_response(outcome.lines)

\* the call without the try block around it: its exception escapes
analyze_methods_in_class_Unguarded(outcome) ==
    IF outcome.kind = "raise" THEN GatherException
    ELSE GatherValue(Take(parse_method_analysis_response(outcome.lines),
                          top_k_methods_per_class))

\* analyze_methods_in_class raises in the statements before its guarded call
\* (the lookups of retrieval_engine.py:101-105, such as a KeyError of
\* class_result['metadata']['raw_content'])
RaisesOutsideTry == [kind |-> "raise_outside_try", lines |-> <<>>]

\* analyze_methods_in_class, as the entry its gather receives
analyze_methods_in_class(outcome) ==
    IF outcome = RaisesOutsideTry THEN GatherException
    ELSE GatherValue(Take(analyze_methods_with_class_context(outcome),
                          top_k_methods_per_class))

(***************************************************************************)
(* Parsing a folder and loading its documents.                             *)
(***************************************************************************)
\* One line of a source file: kind says what clean_smali_content and the
\* class pattern see in it, text is the class path of a declaration.
ClassDeclLine(n) == [kind |-> "class", text |-> n]
CommentLine(t) == [kind |-> "comment", text |-> t]
DebugLine == [kind |-> "debug", text |-> ".line 1"]
BlankLine == [kind |-> "blank", text |-> ""]
CodeLine == [kind |-> "code", text |-> "invoke-virtual"]

\* clean_smali_content: blank lines, comments and debug/metadata lines go
clean_smali_content(lines) ==
    SelectSeq(lines, LAMBDA l : l.kind \notin {"blank", "comment", "debug"})

\* class_pattern.search(content): the lines of content that declare a class
ClassMatches(content) == {i \in 1..Len(content) : content[i].kind = "class"}

\* What a call of parse_smali_file ends in: value is <<>> for None and
\* <<parsed_class>> for a dict; raised says an exception left the call.
ParseResult(value) == [raised |-> FALSE, value |-> value]

\* a parser without its try block: the exception of a bad file leaves the call
parse_smali_file_Propagating(file) ==
    IF file.fault # "none" THEN [raised |-> TRUE, value |-> <<>>]
    ELSE LET content == clean_smali_content(file.lines)
         IN  IF ClassMatches(content) = {} THEN ParseResult(<<>>)
             ELSE ParseResult(<<[class_name |->
                                    content[CHOOSE i \in ClassMatches(content) :
                                        \A j \in ClassMatches(content) : i <= j].text,
                                 file_path |-> file.path,
                                 raw_content |-> content]>>)

\* parse_smali_file: the whole body is in one try block, so a read error
\* (fault "read") or an exception of the extraction (fault "parse") ends in
\* None, as does content without a class declaration.  Of the record the
\* class name (first match), the path and the cleaned content are kept.
parse_smali_file(file) ==
    IF file.fault # "none" THEN ParseResult(<<>>)
    ELSE LET content == clean_smali_content(file.lines)
         IN  IF ClassMatches(content) = {} THEN ParseResult(<<>>)
             ELSE ParseResult(<<[class_name |->
                                    content[CHOOSE i \in ClassMatches(content) :
                                        \A j \in ClassMatches(content) : i <= j].text,
                                 file_path |-> file.path,
                                 raw_content |-> content]>>)

\* A method block of a class file, its tokens separated by single blanks as
\* the decompiler writes them: ".method", the visibility (or none), the
\* modifiers, the name, "(" params ")" and the return type; then the body.
\* body_semicolon says whether the body holds a ";" (an object type in an
\* instruction).  The name is the last token before "(".
ObjectType == [kind |-> "object", text |-> <<"L", "java/lang/String", ";">>]
VoidType == [kind |-> "primitive", text |-> <<"V">>]
IntType == [kind |-> "primitive", text |-> <<"I">>]

\* the tokens between ".method" and "("
HeaderTokens(block) ==
    (IF block.visibility = "" THEN <<>> ELSE <<block.visibility>>)
        \o block.modifiers \o <<block.name>>

\* \.method\s+(?:public|private|protected)?\s+(?:static|final|abstract|synthetic)?\s+([^(]+)\(
\* on tokens one blank apart: each of the three \s+ needs a blank of its own,
\* so the pattern matches only when the first token is a visibility and the
\* second one of its four modifiers; group 1 is every token after them.
HeaderMatches(block) ==
    LET tokens == HeaderTokens(block)
    IN  /\ Len(tokens) >= 3
        /\ tokens[1] \in {"public", "private", "protected"}
        /\ tokens[2] \in {"static", "final", "abstract", "synthetic"}

\* does the text from ".method" to the end of the declaration hold a ";"
HeaderSemicolon(block) ==
    block.params.kind = "object" \/ block.return_type.kind = "object"

\* \)([^;]+); after the parameters: group 3 runs to the next ";" of the
\* content, wherever it is.  For the block at the head of blocks: 0 when no
\* ";" follows, else the number of the block that holds it (1 for the block
\* itself).
NextSemicolon(blocks) ==
    LET holds == {k \in 1..Len(blocks) :
                     \/ blocks[k].body_semicolon
                     \/ k = 1 /\ blocks[k].return_type.kind = "object"
                     \/ k > 1 /\ HeaderSemicolon(blocks[k])}
    IN  IF holds = {} THEN 0 ELSE CHOOSE k \in holds : \A j \in holds : k <= j

\* the record _extract_methods appends for one match; the signature is
\* f"{method_name}({params}){return_type}"
MethodRecord(block, return_type) ==
    LET tokens == HeaderTokens(block)
        method_name == SubSeq(tokens, 3, Len(tokens))
    IN  [name |-> method_name,
         params |-> block.params.text,
         return_type |-> return_type,
         signature |-> <<method_name, "(", block.params.text, ")", return_type>>]

\* _extract_methods: method_pattern.finditer over the cleaned content.  An
\* object return type is captured without its ";"; a primitive or void one
\* is captured together with the text up to the next ";", and the blocks
\* whose declaration lies in that text are not matched again.
RECURSIVE extract_methods(_)
extract_methods(blocks) ==
    IF blocks = <<>> THEN <<>>
    ELSE LET block == Head(blocks)
             k == NextSemicolon(blocks)
         IN  IF ~HeaderMatches(block) \/ k = 0
             THEN extract_methods(Tail(blocks))
             ELSE IF block.return_type.kind = "object"
             THEN <<MethodRecord(block, <<"L", "java/lang/String">>)>>
                  \o extract_methods(Tail(blocks))
             ELSE <<MethodRecord(block, block.return_type.text
                                        \o <<"text up to the next ;">>)>>
                  \o extract_methods(SubSeq(blocks, k + 1, Len(blocks)))

\* The lines of a method block: its declaration (one that method_pattern
\* matches within the line: a visibility, one modifier, an object return
\* type) and its end marker, which is one of the debug/metadata prefixes of
\* clean_smali_content.
MethodStartLine ==
    [kind |-> "method", text |-> ".method public static run()Ljava/lang/String;"]
EndMethodLine == [kind |-> "debug", text |-> ".end method"]

\* _find_method_end: the first line from start_pos on that is ".end method",
\* 0 for None
find_method_end(content, start_pos) ==
    LET ends == {j \in start_pos..Len(content) : content[j].text = ".end method"}
    IN  IF ends = {} THEN 0
        ELSE CHOOSE j \in ends : \A k \in ends : j <= k

\* method_content of _extract_methods for the match at line method_start:
\* content[method_start:method_end] if method_end else ""
method_content(content, method_start) ==
    LET method_end == find_method_end(content, method_start)
    IN  IF method_end # 0 THEN SubSeq(content, method_start, method_end) ELSE <<>>

\* parse_smali_file, of its record the methods: the content is cleaned first
\* and the methods are extracted from the cleaned content, one per match
parsed_methods(lines) ==
    LET content == clean_smali_content(lines)
        matches == SelectSeq([i \in 1..Len(content) |-> i],
                             LAMBDA i : content[i].kind = "method")
    IN  [m \in 1..Len(matches) |->
            [start |-> matches[m], content |-> method_content(content, matches[m])]]

\* A class name is a sequence of pieces: words, the character "$" and the
\* digit "0".  A pattern of lambda_patterns is a sequence of pieces too,
\* "\\d+" standing for one or more digits at its end.
Digits == {"0"}

lambda_patterns ==
    << <<"$", "$", "ExternalSyntheticLambda", "\\d+">>,
       <<"$", "$", "Lambda", "$">>,
       <<"$", "$", "Lambda", "\\d+">>,
       <<"$", "$", "SyntheticLambda">>,
       <<"$", "$", "Generated">> >>

\* re.search(pattern, class_name): the pattern matches at some place
re_search(pattern, class_name) ==
    \E at \in 0..(Len(class_name) - Len(pattern)) :
        \A i \in 1..Len(pattern) :
            IF pattern[i] = "\\d+"
            THEN class_name[at + i] \in Digits
            ELSE class_name[at + i] = pattern[i]

\* _is_synthetic_class; content is told by what the three "in content"
\* tests of the function find in it
is_synthetic_class_ContentOnly(content, class_name) ==
    \/ content.class_directive /\ content.synthetic_word
    \/ content.d8_marker

is_synthetic_class(content, class_name) ==
    \/ content.class_directive /\ content.synthetic_word
    \/ \E i \in 1..Len(lambda_patterns) : re_search(lambda_patterns[i], class_name)
    \/ content.d8_marker

\* Lines of a class body that carry one of the strings _is_synthetic_class
\* looks for: a method declared synthetic (an accessor or a bridge the
\* compiler adds to a hand-written class), the source directive of a D8
\* class (a ".source" line, which clean_smali_content removes) and an
\* instruction that holds the D8 marker as a string.
SyntheticMethodLine ==
    [kind |-> "method", text |-> ".method static synthetic access$000()V"]
D8SourceLine == [kind |-> "debug", text |-> ".source \"D8$$SyntheticClass\""]
D8StringLine == [kind |-> "code", text |-> "const-string v0, \"D8$$SyntheticClass\""]

\* what the three "in content" tests of _is_synthetic_class find in the
\* content parse_smali_file passes: the cleaned text of a file whose class
\* declaration has the synthetic token or not
ContentTests(declared_synthetic, body) ==
    LET content == clean_smali_content(body)
    IN  [class_directive |-> TRUE,
         synthetic_word |-> \/ declared_synthetic
                            \/ \E i \in 1..Len(content) :
                                  content[i] = SyntheticMethodLine,
         d8_marker |-> \E i \in 1..Len(content) :
                          content[i] \in {D8SourceLine, D8StringLine}]

\* The parse loop of load: parsed_classes, or the exception of a call that
\* let one out.
RECURSIVE ParseLoop(_, _)
ParseLoop(smali_files, parsed_classes) ==
    IF smali_files = <<>> THEN [raised |-> FALSE, parsed_classes |-> parsed_classes]
    ELSE LET parsed_class == parse_smali_file(Head(smali_files))
         IN  IF parsed_class.raised
             THEN [raised |-> TRUE, parsed_classes |-> <<>>]
             ELSE ParseLoop(Tail(smali_files), parsed_classes \o parsed_class.value)

\* the text the model writes for a class body
DescriptionOf(cleaned_content) == <<"description of", cleaned_content>>

\* _generate_class_description_with_content: every exception of the call is
\* caught inside and answered with the fallback text.
generate_class_description_with_content(cleaned_content, outcome) ==
    IF outcome = "raise" THEN <<"Class description could not be generated.">>
    ELSE DescriptionOf(cleaned_content)

\* _process_parsed_class, as the entry its gather receives
process_parsed_class(parsed_class, outcome) ==
    GatherValue(generate_class_description_with_content(parsed_class.raw_content,
                                                        outcome))

\* a loop that indexes only the classes whose description was generated
LoadDocuments_DescribedOnly(parsed_classes, results) ==
    LET described ==
            SelectSeq([i \in 1..Len(parsed_classes) |->
                          [parsed_class |-> parsed_classes[i], result |-> results[i]]],
                      LAMBDA e : /\ ~e.result.exception
                                 /\ e.result.value # <<"Class description could not be generated.">>)
    IN  [i \in 1..Len(described) |->
            [page_content |-> described[i].result.value,
             metadata |-> [class_name |-> described[i].parsed_class.class_name,
                           file_path |-> described[i].parsed_class.file_path,
                           raw_content |-> described[i].parsed_class.raw_content]]]

\* The loop over zip(parsed_classes, results): one Document per pair, with
\* the description (or the placeholder for an exception entry) as
\* page_content and the metadata of the pair's parsed_class.
LoadDocuments(parsed_classes, results) ==
    [i \in 1..Min(Len(parsed_classes), Len(results)) |->
        [page_content |->
            IF results[i].exception
            THEN <<"Class description could not be generated due to an error.">>
            ELSE results[i].value,
         metadata |-> [class_name |-> parsed_classes[i].class_name,
                       file_path |-> parsed_classes[i].file_path,
                       raw_content |-> parsed_classes[i].raw_content]]]

\* SmaliFolderLoader.load
load(smali_files, outcomes) ==
    LET parsed == ParseLoop(smali_files, <<>>)
    IN  IF parsed.raised
        THEN [raised |-> TRUE, parsed_classes |-> <<>>, documents |-> <<>>]
        ELSE [raised |-> FALSE,
              parsed_classes |-> parsed.parsed_classes,
              documents |->
                  LoadDocuments(parsed.parsed_classes,
                      [i \in 1..Len(parsed.parsed_classes) |->
                          process_parsed_class(parsed.parsed_classes[i], outcomes[i])])]

(***************************************************************************)
(* Report assembly.                                                        *)
(***************************************************************************)
\* BEHAVIOR_DESCRIPTIONS[behavior_id]
BehaviorDescription(behavior_id) == <<"description of behavior", ToString(behavior_id)>>

\* the inner loop of _format_behavior_result over class_result["involved_methods"]
FormatMethods(involved_methods) ==
    [m \in 1..Len(involved_methods) |->
        [method_signature |-> involved_methods[m].method_signature,
         role_explanation |-> involved_methods[m].role_explanation,
         relevance_score |-> involved_methods[m].relevance_score]]

\* _format_behavior_result; class_result.involved_methods is <<>> while the
\* key is not set and <<list>> once it is.
format_behavior_result(behavior_result) ==
    [behavior_id |-> behavior_result.behavior_id,
     behavior_description |-> BehaviorDescription(behavior_result.behavior_id),
     relevant_classes |->
        [c \in 1..Len(behavior_result.class_results) |->
            LET class_result == behavior_result.class_results[c]
            IN  [class_signature |-> class_result.class_signature,
                 class_explanation |-> class_result.explanation,
                 vector_similarity_score |-> class_result.vector_similarity_score,
                 llm_relevance_score |-> class_result.llm_relevance_score,
                 involved_methods |-> FormatMethods(class_result.involved_methods[1])]]]

\* class_result["involved_methods"] raises KeyError for a class without it
FormatRaises(behavior_results) ==
    \E b \in 1..Len(behavior_results) :
        \E c \in 1..Len(behavior_results[b].class_results) :
            behavior_results[b].class_results[c].involved_methods = <<>>

\* a report that puts each new entry in front of the earlier ones
generate_behavior_report_Prepending(app_name, behavior_results) ==
    [app_name |-> app_name,
     total_behaviors_analyzed |-> Len(behavior_results),
     behaviors |-> [b \in 1..Len(behavior_results) |->
                       format_behavior_result(
                           behavior_results[Len(behavior_results) + 1 - b])]]

\* generate_behavior_report (analysis_timestamp, the clock, is left out)
generate_behavior_report(app_name, behavior_results) ==
    [app_name |-> app_name,
     total_behaviors_analyzed |-> Len(behavior_results),
     behaviors |-> [b \in 1..Len(behavior_results) |->
                       format_behavior_result(behavior_results[b])]]

\* a class_result dict; involved_methods is <<>> while the key is not set
ClassResult(c, involved_methods) ==
    [class_name |-> c.class_name,
     class_signature |-> c.class_signature,
     vector_similarity_score |-> c.vector_similarity_score,
     llm_relevance_score |-> c.llm_relevance_score,
     explanation |-> c.explanation,
     involved_methods |-> involved_methods]

\* tasks = [analyze_methods_in_class(class_result, behavior_id)
\*          for class_result in class_results]: the arguments of the calls
\* _analyze_methods hands to gather; none when class_results is empty and the
\* function has returned before
AttributionTasks(behavior_id, class_results) ==
    [c \in 1..Len(class_results) |->
        [class_name |-> class_results[c].class_name, behavior_id |-> behavior_id]]

(***************************************************************************)
(* The dict objects of the candidate records.  heap is the sequence of the *)
(* dicts created so far, an address is a place in it, and a list of        *)
(* records is a list of addresses.                                         *)
(***************************************************************************)
\* a retrieval that keeps one record per class and hands the same dict to
\* every behaviour that selects the class
NewDict_PerClass(heap, record) ==
    IF \E a \in 1..Len(heap) : heap[a].class_name = record.class_name
    THEN CHOOSE a \in 1..Len(heap) : heap[a].class_name = record.class_name
    ELSE Len(heap) + 1

\* re_ranked_results.append({...}): the dict display makes a new object
NewDict(heap, record) == Len(heap) + 1

\* the heap after the dict at address a has been given the items of record
Store(heap, a, record) ==
    [b \in 1..(IF a > Len(heap) THEN a ELSE Len(heap)) |->
        IF b = a THEN record ELSE heap[b]]

\* the records a retrieval returns, as objects: the heap and the list of
\* addresses after each record of the list has been created
RECURSIVE CreateRecords(_, _, _)
CreateRecords(heap, refs, records) ==
    IF records = <<>> THEN [heap |-> heap, refs |-> refs]
    ELSE LET a == NewDict(heap, Head(records))
         IN  CreateRecords(Store(heap, a, ClassResult(Head(records), <<>>)),
                           Append(refs, a), Tail(records))

\* class_result['involved_methods'] = involved_methods for each class of the
\* list, in its order
RECURSIVE AttachAll(_, _, _)
AttachAll(heap, refs, classes_involved_methods) ==
    IF refs = <<>> \/ classes_involved_methods = <<>> THEN heap
    ELSE AttachAll(
             IF Head(classes_involved_methods).exception THEN heap
             ELSE Store(heap, Head(refs),
                        ClassResult(heap[Head(refs)],
                                    <<Head(classes_involved_methods).value>>)),
             Tail(refs), Tail(classes_involved_methods))

(***************************************************************************)
(* State.                                                                  *)
(***************************************************************************)
VARIABLES
    unit_pc,    \* a call of one operation on its own: "called" or "returned"
    unit_in,    \* its arguments and the answers of the capabilities it calls
    unit_out,   \* what it returned
    pc,                 \* where the run of one SmaliMalwareAnalyzer stands
    persist_directory,  \* CONFIG["vectorstore"]["persist_directory"] on disk
    analyzer,           \* the fields of the SmaliMalwareAnalyzer of the run
    behavior_ids,       \* the argument of analyze_behaviors
    filtered_behavior_ids,
    retrievals,         \* the retrieve_classes_for_behavior tasks of the run
    analyses,           \* the _analyze_methods tasks of the run
    results_summary,    \* what log_analysis_end was given, <<>> before
    report,             \* what analyze_behaviors returned, <<>> before
    llm_phase,          \* which callers of generate_text are dispatched
    semaphore,          \* LLM.semaphore._value of each LLM instance
    requests            \* the generate_text calls of the current gather

unit_vars == <<unit_pc, unit_in, unit_out>>

run_vars == <<pc, persist_directory, analyzer, behavior_ids, filtered_behavior_ids,
              retrievals, analyses, results_summary, report>>

gate_vars == <<llm_phase, semaphore, requests>>

vars == <<unit_pc, unit_in, unit_out, pc, persist_directory, analyzer, behavior_ids,
          filtered_behavior_ids, retrievals, analyses, results_summary, report,
          llm_phase, semaphore, requests>>

\* no analyzer exists: the state of the run variables where one operation is
\* called on its own
NoRun ==
    /\ pc = "none"
    /\ persist_directory = [exists |-> FALSE, index_of |-> 0]
    /\ analyzer = <<>>
    /\ behavior_ids = <<>>
    /\ filtered_behavior_ids = <<>>
    /\ retrievals = <<>>
    /\ analyses = <<>>
    /\ results_summary = <<>>
    /\ report = <<>>

\* no operation is called on its own
NoUnit == unit_pc = "none" /\ unit_in = <<>> /\ unit_out = <<>>

\* the text-generation gate is not looked at
NoGate == llm_phase = "none" /\ semaphore = <<>> /\ requests = <<>>

(***************************************************************************)
(* retrieve_classes_for_behavior on its own: every stage-1 answer, every   *)
(* outcome of every relevance assessment, every configured threshold.      *)
(***************************************************************************)
RelevanceScores == {50, 85, 90, 95}

AssessOutcomes ==
    {LLMRaises} \cup
    {LLMText(<<ScoreLine(s), ExplanationLine("uses the API")>>) : s \in RelevanceScores}

\* the numbers a "Score:" line can carry that float() reads: 0.9, 1.5, -0.2,
\* inf, nan
AnyScores == {90, 150, -20, Infinity, NaN}

AnyScoreOutcomes ==
    {LLMText(<<ScoreLine(s), ExplanationLine("uses the API")>>) : s \in AnyScores}

RetrieveCallsWith(thresholds, assess_outcomes) ==
    /\ NoRun
    /\ NoGate
    /\ unit_pc = "called"
    /\ unit_out = <<>>
    /\ \E docs \in SimilaritySearchResults(initial_candidates), threshold \in thresholds :
         \E outcomes \in [1..Len(filtered_docs_and_scores(docs)) -> assess_outcomes] :
            unit_in = [op |-> "retrieve_classes_for_behavior",
                       docs_and_scores |-> docs,
                       outcomes |-> outcomes,
                       threshold |-> threshold]

RetrieveCalls(thresholds) == RetrieveCallsWith(thresholds, AssessOutcomes)

\* The call runs to its return statement; unit_out keeps the locals
\* filtered_docs_and_scores and relevance_results next to the returned list.
RetrieveReturns ==
    /\ unit_pc = "called"
    /\ unit_in.op = "retrieve_classes_for_behavior"
    /\ unit_out' =
         [filtered_docs_and_scores |-> filtered_docs_and_scores(unit_in.docs_and_scores),
          relevance_results |->
              relevance_results(filtered_docs_and_scores(unit_in.docs_and_scores),
                                unit_in.outcomes),
          returned |-> retrieve_classes_for_behavior(unit_in.docs_and_scores,
                                                     unit_in.outcomes,
                                                     unit_in.threshold)]
    /\ unit_pc' = "returned"
    /\ UNCHANGED unit_in
    /\ UNCHANGED <<run_vars, gate_vars>>

NextRetrieve == RetrieveReturns

\* under the threshold config.py sets
InitRetrieve == RetrieveCalls({relevance_threshold_config})

SpecRetrieve == InitRetrieve /\ [][NextRetrieve]_vars

\* under every threshold a deployment may configure
InitRetrieveThresholds == RetrieveCalls(Thresholds)

SpecRetrieveThresholds == InitRetrieveThresholds /\ [][NextRetrieve]_vars

\* responses that do not follow the protocol of the assessment prompt: no
\* Score line, or a Score line float() cannot read, with and without an
\* Explanation line and a Relevant APIs line; and, beside them, responses
\* whose last Score line reads 0.9
MalformedOutcomes ==
    {LLMText(<<>>),
     LLMText(<<OtherLine("The class sends text messages.")>>),
     LLMText(<<ExplanationLine("uses the API")>>),
     LLMText(<<ApisLine("sendTextMessage")>>),
     LLMText(<<BadScoreLine>>),
     LLMText(<<BadScoreLine, ExplanationLine("uses the API")>>),
     LLMText(<<ExplanationLine("uses the API"), BadScoreLine>>),
     LLMText(<<BadScoreLine, ExplanationLine("uses the API"), ApisLine("sendTextMessage")>>),
     LLMText(<<ApisLine("sendTextMessage"), ExplanationLine("uses the API")>>),
     LLMText(<<ScoreLine(90), ExplanationLine("uses the API"), BadScoreLine>>),
     LLMText(<<BadScoreLine, ScoreLine(90), ExplanationLine("uses the API")>>),
     LLMText(<<ScoreLine(90), ExplanationLine("uses the API")>>)}

\* retrieve_classes_for_behavior on the answers of an index of no more than
\* top_k_classes documents, under a zero, a small and the configured
\* threshold
InitRetrieveMalformed ==
    /\ NoRun
    /\ NoGate
    /\ unit_pc = "called"
    /\ unit_out = <<>>
    /\ \E docs \in SimilaritySearchResults(top_k_classes),
          threshold \in Thresholds \cup {1} :
         \E outcomes \in [1..Len(filtered_docs_and_scores(docs)) -> MalformedOutcomes] :
            unit_in = [op |-> "retrieve_classes_for_behavior",
                       docs_and_scores |-> docs,
                       outcomes |-> outcomes,
                       threshold |-> threshold]

SpecRetrieveMalformed == InitRetrieveMalformed /\ [][NextRetrieve]_vars

\* responses made of a Score line, an Explanation line and, or not, a
\* Relevant APIs line (naming an API, empty, or 'None'), in every order
ProtocolLineSets ==
    {{ScoreLine(90), ExplanationLine("uses the API")}} \cup
    {{ScoreLine(90), ExplanationLine("uses the API"), ApisLine(apis)} :
        apis \in {"sendTextMessage", "", "None"}}

OrderedOutcomes ==
    {LLMText(lines) : lines \in
        UNION {{order \in [1..Cardinality(line_set) -> line_set] :
                   \A a, b \in 1..Cardinality(line_set) : a # b => order[a] # order[b]} :
               line_set \in ProtocolLineSets}}

\* retrieve_classes_for_behavior on the answers of an index of no more than
\* top_k_classes documents, under the configured threshold
InitRetrieveOrders ==
    /\ NoRun
    /\ NoGate
    /\ unit_pc = "called"
    /\ unit_out = <<>>
    /\ \E docs \in SimilaritySearchResults(top_k_classes) :
         \E outcomes \in [1..Len(filtered_docs_and_scores(docs)) -> OrderedOutcomes] :
            unit_in = [op |-> "retrieve_classes_for_behavior",
                       docs_and_scores |-> docs,
                       outcomes |-> outcomes,
                       threshold |-> relevance_threshold_config]

SpecRetrieveOrders == InitRetrieveOrders /\ [][NextRetrieve]_vars

(***************************************************************************)
(* retrieve_classes_for_behavior up to its gather: the similarity query    *)
(* and the assessment calls it dispatches, on every index of up to         *)
(* initial_candidates + ExtraIndexed documents.                            *)
(***************************************************************************)
RECURSIVE MaxOf(_)
MaxOf(ns) == IF ns = <<>> THEN 0
             ELSE IF Head(ns) > MaxOf(Tail(ns)) THEN Head(ns) ELSE MaxOf(Tail(ns))

\* the rankings of n documents; several documents may carry one class name,
\* and the classes are numbered in the order they first appear
RECURSIVE RankingsOf(_)
RankingsOf(n) ==
    IF n = 0 THEN {<<>>}
    ELSE UNION {{Append(ranking, name) : name \in 1..(MaxOf(ranking) + 1)} :
                   ranking \in RankingsOf(n - 1)}

IndexRankings ==
    UNION {RankingsOf(n) : n \in 0..(initial_candidates + ExtraIndexed)}

InitDispatch ==
    /\ NoRun
    /\ NoGate
    /\ unit_pc = "called"
    /\ unit_out = <<>>
    /\ \E index \in IndexRankings :
          unit_in = [op |-> "dispatch_assessments", index |-> index]

\* The call runs from its query to the gather of its assessment tasks;
\* unit_out keeps the k of every query made, the answer and the tasks.
DispatchAssessments ==
    /\ unit_pc = "called"
    /\ unit_in.op = "dispatch_assessments"
    /\ LET docs_and_scores == similarity_search_with_score(unit_in.index,
                                                            initial_candidates)
       IN  unit_out' = [queries |-> <<initial_candidates>>,
                        docs_and_scores |-> docs_and_scores,
                        tasks |-> AssessmentTasks(docs_and_scores)]
    /\ unit_pc' = "returned"
    /\ UNCHANGED unit_in
    /\ UNCHANGED <<run_vars, gate_vars>>

NextDispatch == DispatchAssessments

SpecDispatch == InitDispatch /\ [][NextDispatch]_vars

(***************************************************************************)
(* analyze_methods_in_class on its own: every attribution response of up   *)
(* to MaxLines lines, and the call that raises.                            *)
(***************************************************************************)
\* the lines a response is made of; a METHOD line gets its signature below
LineChoices ==
    {MethodLine(""), RoleLine("sends the message"), ConfidenceLine(80),
     ConfidenceLine(150), BadConfidenceLine}

\* the response with each METHOD line naming a method of its own: the one
\* named after the number of the line
ResponseLines(choices) ==
    [i \in 1..Len(choices) |->
        IF choices[i].tag = "METHOD:" THEN MethodLine(ToString(i)) ELSE choices[i]]

AttributionOutcomes ==
    {LLMRaises} \cup
    {LLMText(ResponseLines(choices)) : choices \in SeqsUpTo(LineChoices, MaxLines)}

InitAttribution ==
    /\ NoRun
    /\ NoGate
    /\ unit_pc = "called"
    /\ unit_out = <<>>
    /\ \E outcome \in AttributionOutcomes :
          unit_in = [op |-> "analyze_methods_in_class", outcome |-> outcome]

\* The call runs to its return statement; unit_out keeps the parser's list
\* methods as it is before the sort next to the returned list.
AnalyzeMethodsInClassReturns ==
    /\ unit_pc = "called"
    /\ unit_in.op = "analyze_methods_in_class"
    /\ unit_out' =
         [methods |-> IF unit_in.outcome.kind = "raise" THEN <<>>
                      ELSE ParseMethodLines(unit_in.outcome.lines, <<>>, <<>>),
          returned |-> analyze_methods_in_class(unit_in.outcome).value]
    /\ unit_pc' = "returned"
    /\ UNCHANGED unit_in
    /\ UNCHANGED <<run_vars, gate_vars>>

NextAttribution == AnalyzeMethodsInClassReturns

SpecAttribution == InitAttribution /\ [][NextAttribution]_vars

(***************************************************************************)
(* _parse_method_analysis_response on its own: every response of up to     *)
(* MaxLines lines drawn from METHOD lines, two ROLE texts and two          *)
(* CONFIDENCE values.                                                      *)
(***************************************************************************)
RecordLineChoices ==
    {MethodLine(""), RoleLine("sends the message"), RoleLine("reads the inbox"),
     ConfidenceLine(80), ConfidenceLine(30)}

InitParseResponse ==
    /\ NoRun
    /\ NoGate
    /\ unit_pc = "called"
    /\ unit_out = <<>>
    /\ \E choices \in SeqsUpTo(RecordLineChoices, MaxLines) :
          unit_in = [op |-> "_parse_method_analysis_response",
                     response |-> ResponseLines(choices)]

ParseMethodAnalysisResponseReturns ==
    /\ unit_pc = "called"
    /\ unit_in.op = "_parse_method_analysis_response"
    /\ unit_out' = [returned |-> parse_method_analysis_response(unit_in.response)]
    /\ unit_pc' = "returned"
    /\ UNCHANGED unit_in
    /\ UNCHANGED <<run_vars, gate_vars>>

NextParseResponse == ParseMethodAnalysisResponseReturns

SpecParseResponse == InitParseResponse /\ [][NextParseResponse]_vars

(***************************************************************************)
(* _extract_methods on its own: every class file of up to MaxMethods       *)
(* well-formed method blocks.                                              *)
(***************************************************************************)
MethodBlocks ==
    [visibility : {"", "public", "private"},
     modifiers : {<<>>, <<"static">>, <<"static", "final">>, <<"constructor">>},
     params : {IntType, ObjectType},
     return_type : {VoidType, ObjectType},
     body_semicolon : BOOLEAN]

\* the blocks of a file, each method named after its place in the file
NamedBlocks(blocks) ==
    [i \in 1..Len(blocks) |->
        [visibility |-> blocks[i].visibility,
         modifiers |-> blocks[i].modifiers,
         name |-> ToString(i),
         params |-> blocks[i].params,
         return_type |-> blocks[i].return_type,
         body_semicolon |-> blocks[i].body_semicolon]]

InitExtractMethods ==
    /\ NoRun
    /\ NoGate
    /\ unit_pc = "called"
    /\ unit_out = <<>>
    /\ \E blocks \in SeqsUpTo(MethodBlocks, MaxMethods) :
          unit_in = [op |-> "extract_methods", blocks |-> NamedBlocks(blocks)]

ExtractMethodsReturns ==
    /\ unit_pc = "called"
    /\ unit_in.op = "extract_methods"
    /\ unit_out' = [methods |-> extract_methods(unit_in.blocks)]
    /\ unit_pc' = "returned"
    /\ UNCHANGED unit_in
    /\ UNCHANGED <<run_vars, gate_vars>>

NextExtractMethods == ExtractMethodsReturns

SpecExtractMethods == InitExtractMethods /\ [][NextExtractMethods]_vars

(***************************************************************************)
(* The methods of parse_smali_file on their own: every file of up to       *)
(* MaxLines lines after its class declaration, each a method declaration,  *)
(* an instruction, a debug line or an end marker.                          *)
(***************************************************************************)
MethodFileLines == {MethodStartLine, CodeLine, DebugLine, EndMethodLine}

InitParseMethods ==
    /\ NoRun
    /\ NoGate
    /\ unit_pc = "called"
    /\ unit_out = <<>>
    /\ \E lines \in SeqsUpTo(MethodFileLines, MaxLines) :
          unit_in = [op |-> "parse_smali_file",
                     lines |-> <<ClassDeclLine("com/a/A")>> \o lines]

ParseSmaliFileReturns ==
    /\ unit_pc = "called"
    /\ unit_in.op = "parse_smali_file"
    /\ unit_out' = [raw_content |-> clean_smali_content(unit_in.lines),
                    methods |-> parsed_methods(unit_in.lines)]
    /\ unit_pc' = "returned"
    /\ UNCHANGED unit_in
    /\ UNCHANGED <<run_vars, gate_vars>>

NextParseMethods == ParseSmaliFileReturns

SpecParseMethods == InitParseMethods /\ [][NextParseMethods]_vars

(***************************************************************************)
(* _is_synthetic_class on its own: every class name of up to MaxNamePieces *)
(* pieces after "com/a/A", with every content.                             *)
(***************************************************************************)
NamePieces ==
    {"$", "ExternalSyntheticLambda", "Lambda", "SyntheticLambda", "Generated"}
        \cup Digits

Contents ==
    [class_directive : BOOLEAN, synthetic_word : BOOLEAN, d8_marker : BOOLEAN]

InitSynthetic ==
    /\ NoRun
    /\ NoGate
    /\ unit_pc = "called"
    /\ unit_out = <<>>
    /\ \E pieces \in SeqsUpTo(NamePieces, MaxNamePieces), content \in Contents :
          unit_in = [op |-> "is_synthetic_class",
                     content |-> content,
                     class_name |-> <<"com/a/A">> \o pieces]

IsSyntheticClassReturns ==
    /\ unit_pc = "called"
    /\ unit_in.op = "is_synthetic_class"
    /\ unit_out' = [is_synthetic |->
                        is_synthetic_class(unit_in.content, unit_in.class_name)]
    /\ unit_pc' = "returned"
    /\ UNCHANGED unit_in
    /\ UNCHANGED <<run_vars, gate_vars>>

NextSynthetic == IsSyntheticClassReturns

SpecSynthetic == InitSynthetic /\ [][NextSynthetic]_vars

(***************************************************************************)
(* The synthetic flag of parse_smali_file: class files with a plain or a   *)
(* lambda name, a declaration with or without the synthetic token, and     *)
(* every body of up to MaxLines lines.                                     *)
(***************************************************************************)
FlaggedClassNames == {<<"com/a/A">>, <<"com/a/A", "$", "$", "Lambda", "0">>}

BodyLines == {CodeLine, SyntheticMethodLine, D8SourceLine, D8StringLine}

InitSyntheticFlag ==
    /\ NoRun
    /\ NoGate
    /\ unit_pc = "called"
    /\ unit_out = <<>>
    /\ \E class_name \in FlaggedClassNames, declared_synthetic \in BOOLEAN,
          body \in SeqsUpTo(BodyLines, MaxLines) :
          unit_in = [op |-> "parse_smali_file.is_synthetic",
                     class_name |-> class_name,
                     declared_synthetic |-> declared_synthetic,
                     body |-> body]

SyntheticFlagReturns ==
    /\ unit_pc = "called"
    /\ unit_in.op = "parse_smali_file.is_synthetic"
    /\ unit_out' = [is_synthetic |->
                        is_synthetic_class(
                            ContentTests(unit_in.declared_synthetic, unit_in.body),
                            unit_in.class_name)]
    /\ unit_pc' = "returned"
    /\ UNCHANGED unit_in
    /\ UNCHANGED <<run_vars, gate_vars>>

NextSyntheticFlag == SyntheticFlagReturns

SpecSyntheticFlag == InitSyntheticFlag /\ [][NextSyntheticFlag]_vars

(***************************************************************************)
(* Two behaviours of one run and their candidate records as objects: every *)
(* answer of the index to each of the two queries, every order of the two  *)
(* retrievals and of the two attachments.  The responses of a behaviour    *)
(* name the behaviour, so that a record shows whose texts it holds.        *)
(***************************************************************************)
RecordBehaviorIds == <<1, 2>>

AssessmentOf(behavior_id) ==
    LLMText(<<ScoreLine(90),
              ExplanationLine(<<"relevant to behavior", behavior_id>>)>>)

AttributionOf(behavior_id) ==
    LLMText(<<MethodLine(<<"method of behavior", behavior_id>>),
              RoleLine(<<"role in behavior", behavior_id>>), ConfidenceLine(80)>>)

\* what the retrieval of the t-th behaviour returns, as a list of values
RetrievedRecords(t) ==
    retrieve_classes_for_behavior(
        unit_in.docs_and_scores[t],
        [k \in 1..Len(filtered_docs_and_scores(unit_in.docs_and_scores[t])) |->
            AssessmentOf(RecordBehaviorIds[t])],
        relevance_threshold_config)

InitRecords ==
    /\ NoRun
    /\ NoGate
    /\ unit_pc = "called"
    /\ \E docs \in [1..Len(RecordBehaviorIds) -> SimilaritySearchResults(top_k_classes)] :
          unit_in = [op |-> "analyze_behaviors.records", docs_and_scores |-> docs]
    /\ unit_out = [heap |-> <<>>,
                   class_results |-> [t \in 1..Len(RecordBehaviorIds) |-> <<>>],
                   st |-> [t \in 1..Len(RecordBehaviorIds) |-> "created"],
                   report |-> <<>>]

\* the retrieval task of the t-th behaviour builds its records and returns
RetrieveCreatesRecords(t) ==
    /\ unit_pc = "called"
    /\ unit_in.op = "analyze_behaviors.records"
    /\ unit_out.st[t] = "created"
    /\ LET created == CreateRecords(unit_out.heap, <<>>, RetrievedRecords(t))
       IN  unit_out' = [unit_out EXCEPT !.heap = created.heap,
                                        !.class_results[t] = created.refs,
                                        !.st[t] = "retrieved"]
    /\ UNCHANGED <<unit_pc, unit_in>>
    /\ UNCHANGED <<run_vars, gate_vars>>

\* once the gather of the retrievals is complete, the _analyze_methods task
\* of the t-th behaviour attaches the findings of its classes and returns
AnalyzeMethodsAttaches(t) ==
    /\ unit_pc = "called"
    /\ unit_in.op = "analyze_behaviors.records"
    /\ \A u \in 1..Len(RecordBehaviorIds) : unit_out.st[u] # "created"
    /\ unit_out.st[t] = "retrieved"
    /\ unit_out' =
         [unit_out EXCEPT
             !.heap = AttachAll(@, unit_out.class_results[t],
                          [k \in 1..Len(unit_out.class_results[t]) |->
                              analyze_methods_in_class(
                                  AttributionOf(RecordBehaviorIds[t]))]),
             !.st[t] = "attached"]
    /\ UNCHANGED <<unit_pc, unit_in>>
    /\ UNCHANGED <<run_vars, gate_vars>>

\* the report is generated from the records the lists refer to
RecordsReported ==
    /\ unit_pc = "called"
    /\ unit_in.op = "analyze_behaviors.records"
    /\ \A u \in 1..Len(RecordBehaviorIds) : unit_out.st[u] = "attached"
    /\ unit_out' =
         [unit_out EXCEPT
             !.report =
                 <<generate_behavior_report("app",
                       [t \in 1..Len(RecordBehaviorIds) |->
                           [behavior_id |-> RecordBehaviorIds[t],
                            class_results |->
                                [k \in 1..Len(unit_out.class_results[t]) |->
                                    unit_out.heap[unit_out.class_results[t][k]]]]])>>]
    /\ unit_pc' = "returned"
    /\ UNCHANGED unit_in
    /\ UNCHANGED <<run_vars, gate_vars>>

NextRecords ==
    \/ \E t \in 1..Len(RecordBehaviorIds) : RetrieveCreatesRecords(t)
    \/ \E t \in 1..Len(RecordBehaviorIds) : AnalyzeMethodsAttaches(t)
    \/ RecordsReported

SpecRecords == InitRecords /\ [][NextRecords]_vars

(***************************************************************************)
(* One behaviour from its stage-1 answer to the dispatch of its method     *)
(* attributions: every answer, every outcome of every assessment, under    *)
(* the configured threshold.                                               *)
(***************************************************************************)
InitAttributionCalls ==
    /\ NoRun
    /\ NoGate
    /\ unit_pc = "called"
    /\ unit_out = [class_results |-> <<>>, tasks |-> <<>>]
    /\ \E docs \in SimilaritySearchResults(initial_candidates) :
         \E outcomes \in [1..Len(filtered_docs_and_scores(docs)) -> AssessOutcomes] :
            unit_in = [op |-> "_analyze_methods",
                       behavior_id |-> 1,
                       docs_and_scores |-> docs,
                       outcomes |-> outcomes,
                       threshold |-> relevance_threshold_config]

\* the retrieval of the behaviour returns its final candidate list
RetrievalGathered ==
    /\ unit_pc = "called"
    /\ unit_in.op = "_analyze_methods"
    /\ unit_out' = [unit_out EXCEPT
                       !.class_results =
                           retrieve_classes_for_behavior(unit_in.docs_and_scores,
                                                         unit_in.outcomes,
                                                         unit_in.threshold)]
    /\ unit_pc' = "retrieved"
    /\ UNCHANGED unit_in
    /\ UNCHANGED <<run_vars, gate_vars>>

\* _analyze_methods is called with the list and dispatches its attributions
AnalyzeMethodsDispatches ==
    /\ unit_pc = "retrieved"
    /\ unit_in.op = "_analyze_methods"
    /\ unit_out' = [unit_out EXCEPT
                       !.tasks = AttributionTasks(unit_in.behavior_id,
                                                  unit_out.class_results)]
    /\ unit_pc' = "returned"
    /\ UNCHANGED unit_in
    /\ UNCHANGED <<run_vars, gate_vars>>

NextAttributionCalls == RetrievalGathered \/ AnalyzeMethodsDispatches

SpecAttributionCalls == InitAttributionCalls /\ [][NextAttributionCalls]_vars

(***************************************************************************)
(* SmaliFolderLoader.load on its own: every folder of up to MaxFiles files, *)
(* every outcome of every description call.                                *)
(***************************************************************************)
SmaliClassNames == {"com/a/A", "com/b/B"}

\* what a file may hold: a class, a class behind a commented-out declaration
\* of another one, no class at all, nothing
SmaliFileContents ==
    {<<ClassDeclLine(n), CodeLine>> : n \in SmaliClassNames}
    \cup {<<CommentLine("com/x/X"), BlankLine, ClassDeclLine(n), DebugLine, CodeLine>> :
              n \in SmaliClassNames}
    \cup {<<CommentLine("com/x/X"), CodeLine>>, <<>>}

\* a file: readable and parseable, unreadable, or one whose extraction raises
SmaliFiles ==
    {[fault |-> "none", lines |-> c] : c \in SmaliFileContents}
    \cup {[fault |-> "read", lines |-> <<>>],
          [fault |-> "parse", lines |-> <<ClassDeclLine("com/a/A"), CodeLine>>]}

\* _find_smali_files: the files in the order of the walk, each at its own path
FindSmaliFiles(files) ==
    [i \in 1..Len(files) |->
        [path |-> i, fault |-> files[i].fault, lines |-> files[i].lines]]

DescriptionOutcomes == {"text", "raise"}

InitLoad ==
    /\ NoRun
    /\ NoGate
    /\ unit_pc = "called"
    /\ unit_out = <<>>
    /\ \E files \in SeqsUpTo(SmaliFiles, MaxFiles) :
         LET smali_files == FindSmaliFiles(files)
         IN  \E outcomes \in [1..Len(ParseLoop(smali_files, <<>>).parsed_classes)
                                 -> DescriptionOutcomes] :
                unit_in = [op |-> "load",
                           smali_files |-> smali_files,
                           outcomes |-> outcomes]

\* The call runs to its return statement (or to the exception that ends it);
\* unit_out keeps the local parsed_classes next to the returned documents.
LoadReturns ==
    /\ unit_pc = "called"
    /\ unit_in.op = "load"
    /\ unit_out' = load(unit_in.smali_files, unit_in.outcomes)
    /\ unit_pc' = "returned"
    /\ UNCHANGED unit_in
    /\ UNCHANGED <<run_vars, gate_vars>>

NextLoad == LoadReturns

SpecLoad == InitLoad /\ [][NextLoad]_vars

\* under the threshold config.py sets, with every number a Score line can carry
InitRetrieveAnyScore ==
    RetrieveCallsWith({relevance_threshold_config}, AnyScoreOutcomes)

SpecRetrieveAnyScore == InitRetrieveAnyScore /\ [][NextRetrieve]_vars

(***************************************************************************)
(* Vocabulary of the properties of retrieve_classes_for_behavior.          *)
(***************************************************************************)
RetrieveReturned ==
    unit_pc = "returned" /\ unit_in.op = "retrieve_classes_for_behavior"

\* ranks of the stage-1 answer that are the first to name their class
FirstRanks(docs) ==
    {i \in 1..Len(docs) : \A j \in 1..(i - 1) : docs[j].class_name # docs[i].class_name}

\* the assessment call of the candidate of first rank i is the n-th dispatched
CallOf(docs, i) == Cardinality({j \in FirstRanks(docs) : j <= i})

OutcomeOf(i) == unit_in.outcomes[CallOf(unit_in.docs_and_scores, i)]

\* the number on the Score line of a response (every response drawn here
\* opens with its Score line)
StatedScore(outcome) == outcome.lines[1].num

Answered(i) == OutcomeOf(i).kind = "text"

\* the relevance the assessment of rank i returned: the stated score, and the
\* 0.0 default when the call failed
Assessed(i) == IF Answered(i) THEN StatedScore(OutcomeOf(i)) ELSE 0

ReturnedSignatures ==
    {unit_out.returned[k].class_signature : k \in 1..Len(unit_out.returned)}

SignatureAt(i) == <<"L", unit_in.docs_and_scores[i].class_name, ";">>

\* C1: a candidate whose relevance score is below the configured threshold
\* never appears in the returned list, whatever its vector score (rank); a
\* candidate scoring exactly the threshold passes the filter (it is returned
\* unless the list is already full of top_k_classes candidates).
C1_BelowThresholdNeverReturned ==
    RetrieveReturned =>
        /\ \A k \in 1..Len(unit_out.returned) :
              unit_out.returned[k].llm_relevance_score >= unit_in.threshold
        /\ \A i \in FirstRanks(unit_in.docs_and_scores) :
              /\ (Answered(i) /\ StatedScore(OutcomeOf(i)) < unit_in.threshold)
                    => SignatureAt(i) \notin ReturnedSignatures
              /\ (Answered(i) /\ StatedScore(OutcomeOf(i)) = unit_in.threshold)
                    => \/ SignatureAt(i) \in ReturnedSignatures
                       \/ Len(unit_out.returned) = top_k_classes

\* the best-ranked candidate is rejected for a score below the threshold while
\* a worse-ranked one scoring exactly the threshold is returned
C1_Witness ==
    /\ RetrieveReturned
    /\ unit_in.threshold = relevance_threshold_config
    /\ Len(unit_in.docs_and_scores) >= 2
    /\ Answered(1) /\ StatedScore(OutcomeOf(1)) < unit_in.threshold
    /\ SignatureAt(1) \notin ReturnedSignatures
    /\ \E i \in FirstRanks(unit_in.docs_and_scores) :
          /\ Answered(i) /\ StatedScore(OutcomeOf(i)) = unit_in.threshold
          /\ SignatureAt(i) \in ReturnedSignatures

\* stage-1 rank of the class of a returned candidate
RankOfClass(class_name) ==
    CHOOSE i \in FirstRanks(unit_in.docs_and_scores) :
        unit_in.docs_and_scores[i].class_name = class_name

\* C2 as stated: the returned list has at most top_k_classes entries and is
\* strictly descending by llm_relevance_score.
C2_StrictlyDescending ==
    RetrieveReturned =>
        /\ Len(unit_out.returned) <= top_k_classes
        /\ \A k \in 1..(Len(unit_out.returned) - 1) :
              unit_out.returned[k].llm_relevance_score
                  > unit_out.returned[k + 1].llm_relevance_score

\* C2 amended: the returned list has at most top_k_classes entries and is
\* descending by llm_relevance_score, not strictly: candidates of equal score
\* both stay, in their stage-1 order.
C2_DescendingStableTies ==
    RetrieveReturned =>
        /\ Len(unit_out.returned) <= top_k_classes
        /\ \A k \in 1..(Len(unit_out.returned) - 1) :
              LET a == unit_out.returned[k]
                  b == unit_out.returned[k + 1]
              IN  \/ a.llm_relevance_score > b.llm_relevance_score
                  \/ /\ a.llm_relevance_score = b.llm_relevance_score
                     /\ RankOfClass(a.class_name) < RankOfClass(b.class_name)

\* two candidates of equal score are returned, and more candidates passed the
\* threshold than top_k_classes
C2_Witness ==
    /\ RetrieveReturned
    /\ Len(unit_out.returned) = top_k_classes
    /\ unit_out.returned[1].llm_relevance_score = unit_out.returned[2].llm_relevance_score
    /\ Cardinality({i \in FirstRanks(unit_in.docs_and_scores) :
                        Assessed(i) >= unit_in.threshold}) > top_k_classes

\* first ranks whose assessed relevance is at or above the threshold
Passing ==
    {i \in FirstRanks(unit_in.docs_and_scores) :
        Answered(i) /\ StatedScore(OutcomeOf(i)) >= unit_in.threshold}

\* rank i goes before rank j in the stable descending order
Before(i, j) == Assessed(i) > Assessed(j) \/ (Assessed(i) = Assessed(j) /\ i < j)

\* the rank that has n passing ranks before it
NthPassing(n) ==
    CHOOSE i \in Passing : Cardinality({j \in Passing : Before(j, i)}) = n

ReturnedNames == [k \in 1..Len(unit_out.returned) |-> unit_out.returned[k].class_name]

ReturnedScores ==
    [k \in 1..Len(unit_out.returned) |-> unit_out.returned[k].llm_relevance_score]

InputNames ==
    [i \in 1..Len(unit_in.docs_and_scores) |-> unit_in.docs_and_scores[i].class_name]

\* the example of the specification: three classes with vector scores
\* 0.9, 0.8, 0.7, relevance 0.9, 0.5, 0.95, threshold 0.85
IsSpecExample ==
    /\ InputNames = <<1, 2, 3>>
    /\ [i \in 1..3 |-> unit_in.docs_and_scores[i].score] = <<90, 80, 70>>
    /\ \A i \in 1..3 : Answered(i)
    /\ [i \in 1..3 |-> StatedScore(OutcomeOf(i))] = <<90, 50, 95>>
    /\ unit_in.threshold = 85

\* C3: the returned list is the first top_k_classes elements of the stable
\* descending-by-relevance order of exactly the deduplicated candidates whose
\* assessed relevance is at or above the threshold; in the example of the
\* specification it is [3rd (0.95), 1st (0.9)].
C3_TopOfStableDescendingSort ==
    RetrieveReturned =>
        /\ Len(unit_out.returned) = Min(Cardinality(Passing), top_k_classes)
        /\ \A k \in 1..Len(unit_out.returned) :
              LET i == NthPassing(k - 1)
              IN  /\ unit_out.returned[k].class_name = unit_in.docs_and_scores[i].class_name
                  /\ unit_out.returned[k].class_signature = SignatureAt(i)
                  /\ unit_out.returned[k].llm_relevance_score = Assessed(i)
                  /\ unit_out.returned[k].vector_similarity_score
                        = unit_in.docs_and_scores[i].score
        /\ IsSpecExample => ReturnedNames = <<3, 1>> /\ ReturnedScores = <<95, 90>>

\* the example of the specification has been run
C3_Witness == RetrieveReturned /\ IsSpecExample /\ ReturnedNames = <<3, 1>>

\* C4: the candidates that survive deduplication have pairwise distinct
\* class_signature values, one per class of the stage-1 answer, each with the
\* vector score of the first occurrence of its signature; the returned list
\* never holds one class_signature twice.
C4_DedupKeepsFirstOccurrence ==
    RetrieveReturned =>
        LET docs == unit_in.docs_and_scores
            filtered == unit_out.filtered_docs_and_scores
        IN  /\ \A a, b \in 1..Len(filtered) :
                  a # b => filtered[a].class_name # filtered[b].class_name
            /\ Len(filtered) = Cardinality({docs[i].class_name : i \in 1..Len(docs)})
            /\ \A a \in 1..Len(filtered) :
                  \E i \in FirstRanks(docs) : filtered[a] = docs[i] /\ CallOf(docs, i) = a
            /\ \A k, l \in 1..Len(unit_out.returned) :
                  k # l => unit_out.returned[k].class_signature
                             # unit_out.returned[l].class_signature
            /\ \A k \in 1..Len(unit_out.returned) :
                  unit_out.returned[k].vector_similarity_score
                      = docs[RankOfClass(unit_out.returned[k].class_name)].score

\* the index returned one class at ranks 1 and 3; it is returned once, with
\* the score of rank 1
C4_Witness ==
    /\ RetrieveReturned
    /\ Len(unit_in.docs_and_scores) >= 3
    /\ unit_in.docs_and_scores[1].class_name = unit_in.docs_and_scores[3].class_name
    /\ unit_in.docs_and_scores[2].class_name # unit_in.docs_and_scores[1].class_name
    /\ \E k \in 1..Len(unit_out.returned) :
          /\ unit_out.returned[k].class_signature = SignatureAt(1)
          /\ unit_out.returned[k].vector_similarity_score = unit_in.docs_and_scores[1].score

\* C7: a candidate whose relevance-assessment call failed outright is dropped
\* from the results, for every configured threshold, 0.0 included.
C7_FailedAssessmentDropped ==
    RetrieveReturned =>
        \A i \in FirstRanks(unit_in.docs_and_scores) :
            ~Answered(i) => SignatureAt(i) \notin ReturnedSignatures

(***************************************************************************)
(* The run of one analyzer: setup_system, then analyze_behaviors.          *)
(***************************************************************************)
\* analysis targets (decompiled applications)
Targets == 1..NumTargets

\* the number of source files under a target's folder that parse to a class:
\* target 1 decodes to a folder without any, target t to one with t - 1
ParseableClasses(target) == target - 1

\* the keys of BEHAVIOR_DESCRIPTIONS and BEHAVIOR_QUERIES
BehaviorIds == 1..NumBehaviors

\* the behaviour lists a caller passes; 13 is not in the taxonomy
BehaviorRequests == {<<1>>, <<13>>, <<2, 13, 1>>}

\* what the stage-1 query of one behaviour ends in
SearchRaises == [kind |-> "raise", docs |-> <<>>]
SearchAnswers(names) ==
    [kind |-> "docs",
     docs |-> [i \in 1..Len(names) |-> [class_name |-> names[i], score |-> RankScore(i)]]]

RunSearchOutcomes == {SearchRaises, SearchAnswers(<<1>>), SearchAnswers(<<2, 1>>)}

RunAssessOutcomes ==
    {LLMRaises,
     LLMText(<<ScoreLine(50), ExplanationLine("unrelated")>>),
     LLMText(<<ScoreLine(90), ExplanationLine("uses the API")>>)}

RunAttributionOutcomes ==
    {LLMRaises,
     LLMText(<<MethodLine("send()V"), RoleLine("sends"), ConfidenceLine(60),
               MethodLine("read()V"), RoleLine("reads"), ConfidenceLine(80)>>)}

Pending == [kind |-> "pending", lines |-> <<>>]

NoPending(outcomes) == \A k \in 1..Len(outcomes) : outcomes[k] # Pending

\* SmaliMalwareAnalyzer.__init__
NewAnalyzer(target) ==
    [smali_folder |-> target,
     retrieval_engine |-> [set |-> FALSE, vectorstore |-> [set |-> FALSE, index_of |-> 0]],
     document_count |-> 0]

\* what an earlier run may have left at persist_directory: the index of a
\* target with a parseable class (the last target stands for them all)
PersistedStores ==
    {[exists |-> TRUE, index_of |-> t] :
        t \in {u \in Targets : u = NumTargets /\ ParseableClasses(u) > 0}}

InitRun ==
    /\ NoUnit
    /\ NoGate
    /\ pc = "constructed"
    /\ persist_directory \in {[exists |-> FALSE, index_of |-> 0]} \cup PersistedStores
    /\ analyzer \in {NewAnalyzer(t) : t \in Targets}
    /\ behavior_ids = <<>>
    /\ filtered_behavior_ids = <<>>
    /\ retrievals = <<>>
    /\ analyses = <<>>
    /\ results_summary = <<>>
    /\ report = <<>>

\* _create_vectorstore: self.loader.load(self.package_name) passes
\* load_arguments arguments to load(self), which takes load_parameters; on a
\* mismatch the call raises TypeError before anything is loaded or built.
\* Otherwise an empty document list raises ValueError, and a non-empty one is
\* counted, indexed and persisted.
create_vectorstore(a, directory) ==
    IF load_arguments # load_parameters
    THEN [raised |-> TRUE, analyzer |-> a, directory |-> directory]
    ELSE IF ParseableClasses(a.smali_folder) = 0
    THEN [raised |-> TRUE, analyzer |-> a, directory |-> directory]
    ELSE [raised |-> FALSE,
          analyzer |-> [a EXCEPT
              !.document_count = ParseableClasses(a.smali_folder),
              !.retrieval_engine =
                  [set |-> TRUE,
                   vectorstore |-> [set |-> TRUE, index_of |-> a.smali_folder]]],
          directory |-> [exists |-> TRUE, index_of |-> a.smali_folder]]

\* an engine constructed on a path whose store it never opens
MalwareRetrievalEngine_NoStore(directory) ==
    [set |-> TRUE, vectorstore |-> [set |-> FALSE, index_of |-> 0]]

\* MalwareRetrievalEngine(vectorstore_path): the engine opens the store
\* persisted at the path as its vector store
MalwareRetrievalEngine(directory) ==
    [set |-> TRUE, vectorstore |-> [set |-> TRUE, index_of |-> directory.index_of]]

\* os.path.exists(vectorstore_path) and not force_rebuild
LoadsExistingStore(a, directory, force_rebuild) ==
    directory.exists /\ ~force_rebuild

\* setup_system
SetupSystem ==
    /\ pc = "constructed"
    /\ \E force_rebuild \in BOOLEAN :
          IF LoadsExistingStore(analyzer, persist_directory, force_rebuild)
          THEN /\ analyzer' =
                    [analyzer EXCEPT
                        !.retrieval_engine = MalwareRetrievalEngine(persist_directory)]
               /\ pc' = "set_up"
               /\ UNCHANGED persist_directory
          ELSE LET built == create_vectorstore(analyzer, persist_directory)
               IN  /\ analyzer' = built.analyzer
                   /\ persist_directory' = built.directory
                   /\ pc' = IF built.raised THEN "setup_raised" ELSE "set_up"
    /\ UNCHANGED <<behavior_ids, filtered_behavior_ids, retrievals, analyses,
                   results_summary, report>>
    /\ UNCHANGED <<unit_vars, gate_vars>>

\* a loop that keeps every requested ID
FilterBehaviorIds_KeepAll(ids) == ids

\* the loop that fills filtered_behavior_ids
FilterBehaviorIds(ids) == SelectSeq(ids, LAMBDA b : b \in BehaviorIds)

\* analyze_behaviors up to its first await: without a retrieval engine it
\* raises ValueError at once (whether setup_system was never called or raised);
\* otherwise the requested IDs are filtered and one retrieval task per
\* remaining ID is handed to asyncio.gather.
AnalyzeBehaviors ==
    /\ pc \in {"constructed", "set_up", "setup_raised"}
    /\ IF ~analyzer.retrieval_engine.set
       THEN /\ pc' = "raised_not_set_up"
            /\ UNCHANGED <<behavior_ids, filtered_behavior_ids, retrievals>>
       ELSE /\ \E ids \in BehaviorRequests :
                  /\ behavior_ids' = ids
                  /\ filtered_behavior_ids' = FilterBehaviorIds(ids)
                  /\ retrievals' =
                        [i \in 1..Len(FilterBehaviorIds(ids)) |->
                            [behavior_id |-> FilterBehaviorIds(ids)[i],
                             st |-> "created",
                             index_of |-> 0,
                             docs_and_scores |-> <<>>,
                             outcomes |-> <<>>,
                             result |-> <<>>]]
            /\ pc' = "retrieving"
    /\ UNCHANGED <<persist_directory, analyzer, analyses, results_summary, report>>
    /\ UNCHANGED <<unit_vars, gate_vars>>

\* A retrieval task runs to its await: the vector store is checked, the
\* similarity query (a synchronous call) is answered or raises, the answer is
\* deduplicated and one assessment task per candidate is dispatched.  The
\* tasks start in the order gather was given them.
RetrieveStage1(i) ==
    /\ pc = "retrieving"
    /\ retrievals[i].st = "created"
    /\ \A j \in 1..(i - 1) : retrievals[j].st # "created"
    /\ \E answer \in RunSearchOutcomes :
          retrievals' =
            [retrievals EXCEPT ![i] =
                IF ~analyzer.retrieval_engine.vectorstore.set \/ answer.kind = "raise"
                THEN [@ EXCEPT !.st = "raised"]
                ELSE [@ EXCEPT
                        !.st = "assessing",
                        !.index_of = analyzer.retrieval_engine.vectorstore.index_of,
                        !.docs_and_scores = answer.docs,
                        !.outcomes = [k \in 1..Len(filtered_docs_and_scores(answer.docs))
                                          |-> Pending]]]
    /\ UNCHANGED <<pc, persist_directory, analyzer, behavior_ids, filtered_behavior_ids,
                   analyses, results_summary, report>>
    /\ UNCHANGED <<unit_vars, gate_vars>>

\* The text-generation call of one relevance assessment returns or raises.
AssessCompletes(i, k) ==
    /\ pc = "retrieving"
    /\ \A j \in 1..Len(retrievals) : retrievals[j].st # "created"
    /\ retrievals[i].st = "assessing"
    /\ retrievals[i].outcomes[k] = Pending
    /\ \E outcome \in RunAssessOutcomes :
          retrievals' = [retrievals EXCEPT ![i].outcomes[k] = outcome]
    /\ UNCHANGED <<pc, persist_directory, analyzer, behavior_ids, filtered_behavior_ids,
                   analyses, results_summary, report>>
    /\ UNCHANGED <<unit_vars, gate_vars>>

\* The gather of a behaviour's assessments is complete: the retrieval task
\* filters, sorts, truncates and returns.  The assessments may have completed
\* in any order.
RetrieveReturnsInRun(i) ==
    /\ pc = "retrieving"
    /\ retrievals[i].st = "assessing"
    /\ NoPending(retrievals[i].outcomes)
    /\ \E order \in CompletionOrders(Len(retrievals[i].outcomes)) :
          retrievals' =
            [retrievals EXCEPT
                ![i].st = "returned",
                ![i].result =
                    retrieve_classes_for_behavior(retrievals[i].docs_and_scores,
                                                  Gather(retrievals[i].outcomes, order),
                                                  relevance_threshold_config)]
    /\ UNCHANGED <<pc, persist_directory, analyzer, behavior_ids, filtered_behavior_ids,
                   analyses, results_summary, report>>
    /\ UNCHANGED <<unit_vars, gate_vars>>

\* a gather called without return_exceptions=True: the first exception of a
\* task leaves the await
GatherPropagates_WithoutFlag(results) ==
    \E k \in 1..Len(results) : results[k].exception

\* asyncio.gather(*tasks, return_exceptions=True) hands exceptions back as
\* entries and raises none of them
GatherPropagates(results) == FALSE

\* classes_results: what the gather of the retrieval tasks returns
classes_results ==
    [i \in 1..Len(retrievals) |->
        IF retrievals[i].st = "raised" THEN GatherException
        ELSE GatherValue(retrievals[i].result)]

\* a pairing that also leaves out the behaviours whose retrieval returned no
\* class
RECURSIVE ZipSucceeded_DropEmpty(_, _)
ZipSucceeded_DropEmpty(ids, results) ==
    IF ids = <<>> \/ results = <<>> THEN <<>>
    ELSE IF Head(results).exception \/ Head(results).value = <<>>
         THEN ZipSucceeded_DropEmpty(Tail(ids), Tail(results))
         ELSE <<[behavior_id |-> Head(ids), class_results |-> Head(results).value]>>
              \o ZipSucceeded_DropEmpty(Tail(ids), Tail(results))

\* a pairing that filters the results before zipping them with the IDs
RECURSIVE ZipSucceeded_FilterFirst(_, _)
ZipSucceeded_FilterFirst(ids, results) ==
    IF ids = <<>> \/ results = <<>> THEN <<>>
    ELSE IF Head(results).exception
         THEN ZipSucceeded_FilterFirst(ids, Tail(results))
         ELSE <<[behavior_id |-> Head(ids), class_results |-> Head(results).value]>>
              \o ZipSucceeded_FilterFirst(Tail(ids), Tail(results))

\* [... for behavior_id, class_results in zip(ids, results)
\*      if not isinstance(class_results, Exception)]
RECURSIVE ZipSucceeded(_, _)
ZipSucceeded(ids, results) ==
    IF ids = <<>> \/ results = <<>> THEN <<>>
    ELSE IF Head(results).exception
         THEN ZipSucceeded(Tail(ids), Tail(results))
         ELSE <<[behavior_id |-> Head(ids), class_results |-> Head(results).value]>>
              \o ZipSucceeded(Tail(ids), Tail(results))

RECURSIVE SumSeq(_)
SumSeq(ns) == IF ns = <<>> THEN 0 ELSE Head(ns) + SumSeq(Tail(ns))

\* _analyze_methods up to its await: a behaviour without classes returns at
\* once, otherwise one attribution task per class is handed to gather.
AnalyzeMethodsTask(behavior_id, class_results) ==
    [behavior_id |-> behavior_id,
     class_results |-> [c \in 1..Len(class_results) |-> ClassResult(class_results[c], <<>>)],
     outcomes |-> [c \in 1..Len(class_results) |-> Pending],
     st |-> IF class_results = <<>> THEN "returned" ELSE "attributing",
     total_methods_analyzed |-> 0]

\* a gather that hands back as soon as one of its tasks has finished
GatherComplete_FirstCompleted(tasks) ==
    \/ tasks = <<>>
    \/ \E i \in 1..Len(tasks) : tasks[i].st \in {"returned", "raised"}

\* await asyncio.gather(*tasks, ...) is over when every task has returned
\* or raised
GatherComplete(tasks) ==
    \A i \in 1..Len(tasks) : tasks[i].st \in {"returned", "raised"}

\* The gather of the retrieval tasks is complete: analyze_behaviors builds one
\* _analyze_methods task per behaviour whose retrieval did not raise.
StartAttributing ==
    /\ pc = "retrieving"
    /\ GatherComplete(retrievals)
    /\ IF GatherPropagates(classes_results)
       THEN pc' = "raised" /\ analyses' = <<>>
       ELSE /\ \E order \in CompletionOrders(Len(retrievals)) :
                  LET succeeded == ZipSucceeded(filtered_behavior_ids,
                                                Gather(classes_results, order))
                  IN  analyses' = [t \in 1..Len(succeeded) |->
                                      AnalyzeMethodsTask(succeeded[t].behavior_id,
                                                         succeeded[t].class_results)]
            /\ pc' = "attributing"
    /\ UNCHANGED <<persist_directory, analyzer, behavior_ids, filtered_behavior_ids,
                   retrievals, results_summary, report>>
    /\ UNCHANGED <<unit_vars, gate_vars>>

\* The text-generation call of one class's method attribution returns or raises.
AttributeCompletes(t, c) ==
    /\ pc = "attributing"
    /\ analyses[t].st = "attributing"
    /\ analyses[t].outcomes[c] = Pending
    /\ \E outcome \in RunAttributionOutcomes :
          analyses' = [analyses EXCEPT ![t].outcomes[c] = outcome]
    /\ UNCHANGED <<pc, persist_directory, analyzer, behavior_ids, filtered_behavior_ids,
                   retrievals, results_summary, report>>
    /\ UNCHANGED <<unit_vars, gate_vars>>

\* The gather of a behaviour's attributions is complete: _analyze_methods
\* attaches each finding list to its class (a class whose entry is an
\* exception is skipped and gets no involved_methods) and returns.
AnalyzeMethodsReturns(t) ==
    /\ pc = "attributing"
    /\ analyses[t].st = "attributing"
    /\ NoPending(analyses[t].outcomes)
    /\ \E order \in CompletionOrders(Len(analyses[t].outcomes)) :
       LET classes_involved_methods ==
               Gather([c \in 1..Len(analyses[t].outcomes) |->
                          analyze_methods_in_class(analyses[t].outcomes[c])],
                      order)
       IN  analyses' =
             [analyses EXCEPT
                 ![t].st = "returned",
                 ![t].class_results =
                     [c \in 1..Len(@) |->
                         IF classes_involved_methods[c].exception THEN @[c]
                         ELSE ClassResult(@[c], <<classes_involved_methods[c].value>>)],
                 ![t].total_methods_analyzed =
                     SumSeq([c \in 1..Len(classes_involved_methods) |->
                                IF classes_involved_methods[c].exception THEN 0
                                ELSE Len(classes_involved_methods[c].value)])]
    /\ UNCHANGED <<pc, persist_directory, analyzer, behavior_ids, filtered_behavior_ids,
                   retrievals, results_summary, report>>
    /\ UNCHANGED <<unit_vars, gate_vars>>

\* for behavior_result, num_methods_involved in behavior_analysis_results:
\* the target list unpacks every entry before the body looks at it, and an
\* entry that is an exception cannot be unpacked (TypeError)
UnpackRaises(tasks) ==
    \E t \in 1..Len(tasks) : tasks[t].st = "raised"

\* The gather of the _analyze_methods tasks is complete: analyze_behaviors
\* collects the results, logs the end-of-run summary and generates the report;
\* a TypeError of the collecting loop or a KeyError of the report generator
\* leaves analyze_behaviors as an exception.
Assemble ==
    /\ pc = "attributing"
    /\ GatherComplete(analyses)
    /\ \E order \in CompletionOrders(Len(analyses)) :
       LET behavior_results ==
               Gather([t \in 1..Len(analyses) |->
                          [behavior_id |-> analyses[t].behavior_id,
                           class_results |-> analyses[t].class_results]],
                      order)
           total_relevant_classes ==
               SumSeq([t \in 1..Len(analyses) |-> Len(analyses[t].class_results)])
           total_methods_analyzed ==
               SumSeq([t \in 1..Len(analyses) |-> analyses[t].total_methods_analyzed])
       IN  IF UnpackRaises(analyses)
           THEN pc' = "raised" /\ results_summary' = <<>> /\ report' = <<>>
           ELSE /\ results_summary' = <<[total_classes |-> analyzer.document_count,
                                         relevant_classes |-> total_relevant_classes,
                                         total_methods |-> total_methods_analyzed]>>
                /\ IF FormatRaises(behavior_results)
                   THEN pc' = "raised" /\ report' = <<>>
                   ELSE /\ pc' = "done"
                        /\ report' = <<generate_behavior_report(analyzer.smali_folder,
                                                                behavior_results)>>
    /\ UNCHANGED <<persist_directory, analyzer, behavior_ids, filtered_behavior_ids,
                   retrievals, analyses>>
    /\ UNCHANGED <<unit_vars, gate_vars>>

\* The run is over; the next upload is analysed by a new analyzer.  The
\* persist directory stays as the run left it.
NewRun ==
    /\ pc \in {"done", "raised", "setup_raised", "raised_not_set_up"}
    /\ pc' = "constructed"
    /\ analyzer' \in {NewAnalyzer(t) : t \in Targets}
    /\ behavior_ids' = <<>>
    /\ filtered_behavior_ids' = <<>>
    /\ retrievals' = <<>>
    /\ analyses' = <<>>
    /\ results_summary' = <<>>
    /\ report' = <<>>
    /\ UNCHANGED persist_directory
    /\ UNCHANGED <<unit_vars, gate_vars>>

\* the steps of analyze_behaviors once it has started
AnalysisStep ==
    \/ \E i \in 1..Len(retrievals) : RetrieveStage1(i)
    \/ \E i \in 1..Len(retrievals) :
          \E k \in 1..Len(retrievals[i].outcomes) : AssessCompletes(i, k)
    \/ \E i \in 1..Len(retrievals) : RetrieveReturnsInRun(i)
    \/ StartAttributing
    \/ \E t \in 1..Len(analyses) :
          \E c \in 1..Len(analyses[t].outcomes) : AttributeCompletes(t, c)
    \/ \E t \in 1..Len(analyses) : AnalyzeMethodsReturns(t)
    \/ Assemble

Next == SetupSystem \/ AnalyzeBehaviors \/ AnalysisStep \/ NewRun

Spec == InitRun /\ [][Next]_vars

\* analyze_behaviors on every analyzer it may be handed: one never set up, one
\* whose engine loaded the persisted store, and one whose engine was built by
\* MalwareRetrievalEngine() and never got a vector store
InitAnalyze ==
    /\ NoUnit
    /\ NoGate
    /\ persist_directory \in PersistedStores
    /\ \E t \in Targets :
          \/ analyzer = NewAnalyzer(t) /\ pc = "constructed"
          \/ /\ analyzer = [NewAnalyzer(t) EXCEPT
                    !.retrieval_engine = MalwareRetrievalEngine(persist_directory)]
             /\ pc = "set_up"
          \/ /\ analyzer = [NewAnalyzer(t) EXCEPT
                    !.retrieval_engine =
                        [set |-> TRUE, vectorstore |-> [set |-> FALSE, index_of |-> 0]]]
             /\ pc = "setup_raised"
    /\ behavior_ids = <<>>
    /\ filtered_behavior_ids = <<>>
    /\ retrievals = <<>>
    /\ analyses = <<>>
    /\ results_summary = <<>>
    /\ report = <<>>

NextAnalyze == AnalyzeBehaviors \/ AnalysisStep

SpecAnalyze == InitAnalyze /\ [][NextAnalyze]_vars

\* analyze_methods_in_class of one class raises outside its try block
AttributeRaises(t, c) ==
    /\ pc = "attributing"
    /\ analyses[t].st = "attributing"
    /\ analyses[t].outcomes[c] = Pending
    /\ analyses' = [analyses EXCEPT ![t].outcomes[c] = RaisesOutsideTry]
    /\ UNCHANGED <<pc, persist_directory, analyzer, behavior_ids, filtered_behavior_ids,
                   retrievals, results_summary, report>>
    /\ UNCHANGED <<unit_vars, gate_vars>>

\* _analyze_methods of one behaviour raises after the gather of its classes
AnalyzeMethodsRaises(t) ==
    /\ pc = "attributing"
    /\ analyses[t].st = "attributing"
    /\ NoPending(analyses[t].outcomes)
    /\ analyses' = [analyses EXCEPT ![t].st = "raised"]
    /\ UNCHANGED <<pc, persist_directory, analyzer, behavior_ids, filtered_behavior_ids,
                   retrievals, results_summary, report>>
    /\ UNCHANGED <<unit_vars, gate_vars>>

\* analyze_behaviors when an attribution unit may end in an exception of its
\* own, beside the failures of the capabilities it calls
FaultStep ==
    \/ \E t \in 1..Len(analyses) :
          \E c \in 1..Len(analyses[t].outcomes) : AttributeRaises(t, c)
    \/ \E t \in 1..Len(analyses) : AnalyzeMethodsRaises(t)

NextFaults == AnalyzeBehaviors \/ AnalysisStep \/ FaultStep

SpecFaults == InitAnalyze /\ [][NextFaults]_vars

\* one run of one analyzer: raml_service builds the analyzer, sets it up and
\* analyses once
NextOfRun == SetupSystem \/ AnalyzeBehaviors \/ AnalysisStep

\* every capability call of a started analysis returns or raises, and the
\* event loop runs every task that can run
FairSpec == InitRun /\ [][NextOfRun]_vars /\ WF_vars(AnalysisStep)

(***************************************************************************)
(* Vocabulary of the properties of a run.                                  *)
(***************************************************************************)
\* the relevance the assessment of the candidate of first rank i returned
AssessedIn(docs, outcomes, i) ==
    LET outcome == outcomes[CallOf(docs, i)]
    IN  IF outcome.kind = "text" THEN StatedScore(outcome) ELSE 0

PassingIn(docs, outcomes, threshold) ==
    {i \in FirstRanks(docs) :
        /\ outcomes[CallOf(docs, i)].kind = "text"
        /\ AssessedIn(docs, outcomes, i) >= threshold}

\* the first rank that has n passing ranks before it in the stable descending
\* order of relevance
NthPassingIn(docs, outcomes, threshold, n) ==
    LET passing == PassingIn(docs, outcomes, threshold)
        before(j, i) ==
            \/ AssessedIn(docs, outcomes, j) > AssessedIn(docs, outcomes, i)
            \/ AssessedIn(docs, outcomes, j) = AssessedIn(docs, outcomes, i) /\ j < i
    IN  CHOOSE i \in passing : Cardinality({j \in passing : before(j, i)}) = n

\* the classes a behaviour is due, from the answers its own retrieval got: the
\* stage-1 ranks of the selected classes, best first
DueRanks(docs, outcomes, threshold) ==
    [k \in 1..Min(Cardinality(PassingIn(docs, outcomes, threshold)), top_k_classes) |->
        NthPassingIn(docs, outcomes, threshold, k - 1)]

\* the findings a class is due from the outcome of its own attribution call
\* (the one response text the run draws lists send()V at 60 before read()V
\* at 80)
DueMethods(outcome) ==
    IF outcome.kind = "raise" THEN <<>>
    ELSE <<[method_signature |-> "read()V", role_explanation |-> "reads",
            relevance_score |-> 80],
           [method_signature |-> "send()V", role_explanation |-> "sends",
            relevance_score |-> 60]>>

\* positions of the retrieval tasks that did not raise, in request order
RECURSIVE SucceededFrom(_)
SucceededFrom(i) ==
    IF i > Len(retrievals) THEN <<>>
    ELSE (IF retrievals[i].st = "raised" THEN <<>> ELSE <<i>>) \o SucceededFrom(i + 1)

Succeeded == SucceededFrom(1)

\* the report entry of position r shows the behaviour of retrieval task i with
\* the classes and methods due from that behaviour's own answers
EntryIsOwn(r, i) ==
    LET entry == report[1].behaviors[r]
        docs == retrievals[i].docs_and_scores
        due == DueRanks(docs, retrievals[i].outcomes, relevance_threshold_config)
    IN  /\ entry.behavior_id = retrievals[i].behavior_id
        /\ Len(entry.relevant_classes) = Len(due)
        /\ \A c \in 1..Len(due) :
              /\ entry.relevant_classes[c].class_signature
                    = <<"L", docs[due[c]].class_name, ";">>
              /\ entry.relevant_classes[c].vector_similarity_score = docs[due[c]].score
              /\ entry.relevant_classes[c].llm_relevance_score
                    = AssessedIn(docs, retrievals[i].outcomes, due[c])
              /\ entry.relevant_classes[c].involved_methods
                    = DueMethods(analyses[r].outcomes[c])

\* C5: when the retrieval of a requested behaviour raises, that behaviour is
\* absent from the report and every other behaviour is in it, in request
\* order, with exactly the classes and methods due from its own answers.
C5_FailedRetrievalIsolated ==
    pc = "done" =>
        /\ Len(report[1].behaviors) = Len(Succeeded)
        /\ \A r \in 1..Len(Succeeded) : EntryIsOwn(r, Succeeded[r])
        /\ \A i \in 1..Len(retrievals) :
              retrievals[i].st = "raised" =>
                  \A r \in 1..Len(report[1].behaviors) :
                      report[1].behaviors[r].behavior_id # retrievals[i].behavior_id

\* the retrieval of the first behaviour raised and the report shows the
\* second with a class and its methods
C5_Witness ==
    /\ pc = "done"
    /\ Len(retrievals) = 2
    /\ retrievals[1].st = "raised"
    /\ Len(report[1].behaviors) = 1
    /\ report[1].behaviors[1].behavior_id = retrievals[2].behavior_id
    /\ Len(report[1].behaviors[1].relevant_classes) >= 1
    /\ Len(report[1].behaviors[1].relevant_classes[1].involved_methods) >= 1

\* classes and methods listed in the report
ReportClassCount ==
    SumSeq([b \in 1..Len(report[1].behaviors) |->
               Len(report[1].behaviors[b].relevant_classes)])

ReportMethodCount ==
    SumSeq([b \in 1..Len(report[1].behaviors) |->
               SumSeq([c \in 1..Len(report[1].behaviors[b].relevant_classes) |->
                          Len(report[1].behaviors[b].relevant_classes[c].involved_methods)])])

\* the run ended by returning a report, after the summary with the counts of
\* the classes and methods found
EndOfRun ==
    /\ pc = "done"
    /\ Len(report) = 1
    /\ Len(results_summary) = 1
    /\ results_summary[1].relevant_classes = ReportClassCount
    /\ results_summary[1].total_methods = ReportMethodCount

\* C6: once analyze_behaviors has started on an available index, and every
\* capability call returns or raises, the run reaches its end for any
\* combination of failing similarity queries and text-generation calls: the
\* summary with the class and method counts is emitted and the report is
\* returned; the run never ends by raising.
C6_RunAlwaysCompletes ==
    /\ (pc = "retrieving") ~> EndOfRun
    /\ [](pc # "raised")
    /\ [](pc = "done" => EndOfRun)

\* a run ended although every similarity query of it raised
C6_WitnessAllFailed ==
    /\ EndOfRun
    /\ Len(retrievals) = 2
    /\ \A i \in 1..Len(retrievals) : retrievals[i].st = "raised"
    /\ report[1].behaviors = <<>>
    /\ results_summary[1].relevant_classes = 0

\* C8: when the text-generation call of a class's method attribution fails,
\* the class gets an empty finding list, no exception escapes (the run does
\* not end by raising), and the class stays in the behaviour's report entry.
C8_FailedAttributionYieldsEmptyList ==
    /\ pc # "raised"
    /\ \A t \in 1..Len(analyses) :
          \A c \in 1..Len(analyses[t].outcomes) :
              analyses[t].outcomes[c] = LLMRaises =>
                  /\ analyses[t].st = "returned" =>
                        analyses[t].class_results[c].involved_methods = << <<>> >>
                  /\ pc = "done" =>
                        /\ report[1].behaviors[t].relevant_classes[c].class_signature
                              = analyses[t].class_results[c].class_signature
                        /\ report[1].behaviors[t].relevant_classes[c].involved_methods = <<>>

\* a report lists a class whose attribution call failed, without methods, next
\* to a class of the same behaviour whose call succeeded
C8_Witness ==
    /\ pc = "done"
    /\ \E t \in 1..Len(analyses) :
          /\ Len(analyses[t].outcomes) = 2
          /\ analyses[t].outcomes[1] = LLMRaises
          /\ analyses[t].outcomes[2] # LLMRaises
          /\ report[1].behaviors[t].relevant_classes[1].involved_methods = <<>>
          /\ Len(report[1].behaviors[t].relevant_classes[2].involved_methods) = 2

\* C10: every similarity query of a run is answered from an index built from
\* the class records of the run's own target.
C10_QueriesUseOwnTargetIndex ==
    \A i \in 1..Len(retrievals) :
        retrievals[i].st \in {"assessing", "returned"} =>
            retrievals[i].index_of = analyzer.smali_folder

\* positions of the requested list that hold an ID of the taxonomy
KnownPositions == {p \in 1..Len(behavior_ids) : behavior_ids[p] \in BehaviorIds}

\* the rank of position p among the known positions: the retrieval task it got
KnownRank(p) == Cardinality({q \in KnownPositions : q <= p})

\* C11: a requested ID that is not in the taxonomy is dropped before
\* Retrieving: no retrieval task (similarity query, assessments) and no
\* attribution task ever exists for it, the known IDs get one retrieval task
\* each in request order, the report holds no entry for it, and the run does
\* not fail.
C11_UnknownIdDroppedBeforeRetrieving ==
    /\ \A i \in 1..Len(retrievals) : retrievals[i].behavior_id \in BehaviorIds
    /\ \A t \in 1..Len(analyses) : analyses[t].behavior_id \in BehaviorIds
    /\ pc \in {"retrieving", "attributing", "done"} =>
          /\ Len(retrievals) = Cardinality(KnownPositions)
          /\ \A p \in KnownPositions :
                retrievals[KnownRank(p)].behavior_id = behavior_ids[p]
    /\ pc = "done" =>
          \A r \in 1..Len(report[1].behaviors) :
              report[1].behaviors[r].behavior_id \in BehaviorIds
    /\ pc # "raised"

\* a run asked for 2, 13 and 1 ended with a report on 2 and 1, each with a class
C11_Witness ==
    /\ pc = "done"
    /\ behavior_ids = <<2, 13, 1>>
    /\ Len(report[1].behaviors) = 2
    /\ report[1].behaviors[1].behavior_id = 2
    /\ report[1].behaviors[2].behavior_id = 1
    /\ \A r \in 1..2 : Len(report[1].behaviors[r].relevant_classes) >= 1

\* C12: when the folder of the target holds no parseable class, the run ends
\* in a failure during Indexing: no index is set on the analyzer and no
\* retrieval, attribution or report assembly takes place.
C12_NoParseableClassFailsInIndexing ==
    ParseableClasses(analyzer.smali_folder) = 0 =>
        /\ ~analyzer.retrieval_engine.set
        /\ pc \in {"constructed", "setup_raised", "raised_not_set_up"}

KeptPositions == {p \in KnownPositions : retrievals[KnownRank(p)].st # "raised"}

NthKeptPosition(r) ==
    CHOOSE p \in KeptPositions : Cardinality({q \in KeptPositions : q < p}) = r - 1

\* C18: in every report, total_behaviors_analyzed is the number of entries,
\* every behavior_id is in 1..12, the behaviours are the requested IDs without
\* the unknown ones and without those whose retrieval failed, in request
\* order, and each entry lists its classes in the order of the behaviour's
\* final candidate list.
C18_ReportFollowsRequestOrder ==
    pc = "done" =>
        /\ report[1].total_behaviors_analyzed = Len(report[1].behaviors)
        /\ Len(report[1].behaviors) = Cardinality(KeptPositions)
        /\ \A r \in 1..Len(report[1].behaviors) :
              LET entry == report[1].behaviors[r]
                  p == NthKeptPosition(r)
                  final == retrievals[KnownRank(p)].result
              IN  /\ entry.behavior_id \in 1..NumBehaviors
                  /\ entry.behavior_id = behavior_ids[p]
                  /\ Len(entry.relevant_classes) = Len(final)
                  /\ \A c \in 1..Len(final) :
                        entry.relevant_classes[c].class_signature
                            = final[c].class_signature

\* of the request 2, 13, 1 the report shows 2 and then 1, the first with two
\* classes in the order of its candidate list
C18_Witness ==
    /\ pc = "done"
    /\ behavior_ids = <<2, 13, 1>>
    /\ report[1].total_behaviors_analyzed = 2
    /\ report[1].behaviors[1].behavior_id = 2
    /\ report[1].behaviors[2].behavior_id = 1
    /\ Len(report[1].behaviors[1].relevant_classes) = 2
    /\ report[1].behaviors[1].relevant_classes[1].class_signature
          # report[1].behaviors[1].relevant_classes[2].class_signature

\* C14: every class candidate of a returned result has a relevance score that
\* is a finite number within 0.0..1.0, whatever number the Score line of the
\* assessment carried (above 1, negative, inf, nan).
C14_ClassScoreWithinUnitInterval ==
    (unit_pc = "returned" /\ unit_in.op = "retrieve_classes_for_behavior") =>
        \A i \in 1..Len(unit_out.returned) :
            /\ IsFinite(unit_out.returned[i].llm_relevance_score)
            /\ unit_out.returned[i].llm_relevance_score \in 0..100

(***************************************************************************)
(* Vocabulary of the properties of analyze_methods_in_class.               *)
(***************************************************************************)
AttributionReturned ==
    unit_pc = "returned" /\ unit_in.op = "analyze_methods_in_class"

\* the lines of the response that start a record
MethodLinesOf(lines) == {i \in 1..Len(lines) : lines[i].tag = "METHOD:"}

\* the CONFIDENCE lines of the record started at line i: those after i with no
\* METHOD line in between
ConfidenceLinesOf(lines, i) ==
    {j \in (i + 1)..Len(lines) :
        /\ lines[j].tag = "CONFIDENCE:"
        /\ \A k \in (i + 1)..j : lines[k].tag # "METHOD:"}

Max(S) == CHOOSE x \in S : \A y \in S : y <= x

\* positions of the parsed records that are in the returned list
KeptRecords ==
    {p \in 1..Len(unit_out.methods) :
        \E q \in 1..Len(unit_out.returned) : unit_out.returned[q] = unit_out.methods[p]}

\* C15: every method finding the attribution parser produces has a
\* relevance_score within 0.0..1.0, whatever the response text, CONFIDENCE
\* values outside 0-100 included.
C15_MethodScoreWithinUnitInterval ==
    AttributionReturned =>
        /\ \A p \in 1..Len(unit_out.methods) :
              unit_out.methods[p].relevance_score \in 0..100
        /\ \A q \in 1..Len(unit_out.returned) :
              unit_out.returned[q].relevance_score \in 0..100

\* C16: the list analyze_methods_in_class returns has at most
\* top_k_methods_per_class entries, is in non-increasing order of
\* relevance_score, and is made of the highest-scoring parsed records: as many
\* of them as the limit allows, each once, none scoring lower than a parsed
\* record that was left out.
C16_TopMethodsSortedDescending ==
    AttributionReturned =>
        /\ Len(unit_out.returned) <= top_k_methods_per_class
        /\ Len(unit_out.returned) = Min(Len(unit_out.methods), top_k_methods_per_class)
        /\ \A q \in 1..(Len(unit_out.returned) - 1) :
              unit_out.returned[q].relevance_score
                  >= unit_out.returned[q + 1].relevance_score
        /\ Cardinality(KeptRecords) = Len(unit_out.returned)
        /\ \A p \in KeptRecords :
              \A d \in (1..Len(unit_out.methods)) \ KeptRecords :
                  unit_out.methods[p].relevance_score
                      >= unit_out.methods[d].relevance_score

\* more records than the limit, the first of them scoring lowest, and a
\* returned list that starts with a higher score than it ends with
C16_Witness ==
    /\ AttributionReturned
    /\ Len(unit_out.methods) > top_k_methods_per_class
    /\ \A p \in 2..Len(unit_out.methods) :
          unit_out.methods[1].relevance_score < unit_out.methods[p].relevance_score
    /\ Len(unit_out.returned) = top_k_methods_per_class
    /\ unit_out.returned[1].relevance_score
          > unit_out.returned[Len(unit_out.returned)].relevance_score

\* C17: each METHOD line of a response yields one record, whose
\* relevance_score is n/100 when the last CONFIDENCE line of the record
\* carries the integer n (80 gives 0.8), 0.5 when that line carries no
\* integer, and 0.0 when the record has no CONFIDENCE line.
C17_ConfidenceSetsScore ==
    (AttributionReturned /\ unit_in.outcome.kind = "text") =>
        LET lines == unit_in.outcome.lines
        IN  /\ Len(unit_out.methods) = Cardinality(MethodLinesOf(lines))
            /\ \A i \in MethodLinesOf(lines) :
                  \E p \in 1..Len(unit_out.methods) :
                      /\ unit_out.methods[p].method_signature = ToString(i)
                      /\ unit_out.methods[p].relevance_score =
                            IF ConfidenceLinesOf(lines, i) = {} THEN 0
                            ELSE LET last == lines[Max(ConfidenceLinesOf(lines, i))]
                                 IN  IF last.ok THEN last.num ELSE 50

\* a response with three records: CONFIDENCE: 80, a CONFIDENCE line without
\* an integer, and no CONFIDENCE line; parsed to 0.8, 0.5 and 0.0
C17_Witness ==
    /\ AttributionReturned
    /\ unit_in.outcome.kind = "text"
    /\ Len(unit_in.outcome.lines) = 5
    /\ unit_in.outcome.lines[2] = ConfidenceLine(80)
    /\ unit_in.outcome.lines[4] = BadConfidenceLine
    /\ Len(unit_out.methods) = 3
    /\ unit_out.methods[1].relevance_score = 80
    /\ unit_out.methods[2].relevance_score = 50
    /\ unit_out.methods[3].relevance_score = 0

(***************************************************************************)
(* Vocabulary of the properties of SmaliFolderLoader.load.                 *)
(***************************************************************************)
LoadReturned == unit_pc = "returned" /\ unit_in.op = "load"

\* the files of the folder that cannot be parsed: unreadable, raising in the
\* extraction, or without a class declaration outside comments
BadFiles ==
    {b \in 1..Len(unit_in.smali_files) :
        \/ unit_in.smali_files[b].fault # "none"
        \/ \A i \in 1..Len(unit_in.smali_files[b].lines) :
              unit_in.smali_files[b].lines[i].kind # "class"}

\* the folder without file b
WithoutFile(b) == SelectSeq(unit_in.smali_files, LAMBDA f : f.path # b)

\* C19: load returns one document per parsed class, in parse order; each
\* carries the class name, path and body of that class, and as text the
\* description generated from that same body, or the fixed placeholder when
\* the generation failed; the load does not raise.
C19_OneDocumentPerParsedClass ==
    LoadReturned =>
        /\ ~unit_out.raised
        /\ Len(unit_out.documents) = Len(unit_out.parsed_classes)
        /\ \A i \in 1..Len(unit_out.parsed_classes) :
              LET parsed_class == unit_out.parsed_classes[i]
                  doc == unit_out.documents[i]
              IN  /\ doc.metadata.class_name = parsed_class.class_name
                  /\ doc.metadata.file_path = parsed_class.file_path
                  /\ doc.metadata.raw_content = parsed_class.raw_content
                  /\ doc.page_content =
                        IF unit_in.outcomes[i] = "raise"
                        THEN <<"Class description could not be generated.">>
                        ELSE DescriptionOf(parsed_class.raw_content)

\* three classes, the description of the second failed: three documents, the
\* second with the placeholder, the others with descriptions of their own
\* and different bodies
C19_Witness ==
    /\ LoadReturned
    /\ Len(unit_out.documents) = 3
    /\ unit_in.outcomes = <<"text", "raise", "text">>
    /\ unit_out.documents[2].page_content
          = <<"Class description could not be generated.">>
    /\ unit_out.documents[1].page_content
          = DescriptionOf(unit_out.documents[1].metadata.raw_content)
    /\ unit_out.documents[1].metadata.raw_content
          # unit_out.documents[3].metadata.raw_content

\* C20: a file that cannot be parsed yields None for that file only: the load
\* does not raise, no record carries the path of a bad file, every other file
\* yields the record of its first class declaration, in the order of the
\* files, and the records are those of the folder without the bad file.
C20_BadFileSkippedOthersParsed ==
    LoadReturned =>
        /\ ~unit_out.raised
        /\ Len(unit_out.parsed_classes) = Len(unit_in.smali_files) - Cardinality(BadFiles)
        /\ \A r \in 1..Len(unit_out.parsed_classes) :
              unit_out.parsed_classes[r].file_path \notin BadFiles
        /\ \A r \in 1..(Len(unit_out.parsed_classes) - 1) :
              unit_out.parsed_classes[r].file_path
                  < unit_out.parsed_classes[r + 1].file_path
        /\ \A b \in BadFiles :
              /\ parse_smali_file(unit_in.smali_files[b]).value = <<>>
              /\ unit_out.parsed_classes = ParseLoop(WithoutFile(b), <<>>).parsed_classes

\* an unreadable file between two files with a class: two records
C20_Witness ==
    /\ LoadReturned
    /\ Len(unit_in.smali_files) = 3
    /\ unit_in.smali_files[2].fault = "read"
    /\ BadFiles = {2}
    /\ Len(unit_out.parsed_classes) = 2
    /\ unit_out.parsed_classes[1].file_path = 1
    /\ unit_out.parsed_classes[2].file_path = 3

\* C21: for a class file of N well-formed method blocks the parser returns
\* N method records, in file order, each with the signature
\* name(params)return-type of its own declaration.
C21_OneRecordPerMethodBlock ==
    (unit_pc = "returned" /\ unit_in.op = "extract_methods") =>
        /\ Len(unit_out.methods) = Len(unit_in.blocks)
        /\ \A i \in 1..Len(unit_out.methods) :
              unit_out.methods[i].signature =
                  <<(<<unit_in.blocks[i].name>>), "(", unit_in.blocks[i].params.text, ")",
                    unit_in.blocks[i].return_type.text>>

\* the lambda suffixes a compiler gives to the classes it generates
KnownLambdaSuffixes ==
    {<<"$", "$", "ExternalSyntheticLambda", "0">>,
     <<"$", "$", "Lambda", "$">>,
     <<"$", "$", "Lambda", "0">>,
     <<"$", "$", "SyntheticLambda">>,
     <<"$", "$", "Generated">>}

HasKnownLambdaSuffix(class_name) ==
    \E suffix \in KnownLambdaSuffixes :
        \E from \in 1..Len(class_name) :
            /\ from + Len(suffix) - 1 <= Len(class_name)
            /\ SubSeq(class_name, from, from + Len(suffix) - 1) = suffix

\* C22: a class whose name contains a known compiler-generated lambda
\* suffix is flagged synthetic, whatever the content of the file is.
C22_LambdaNameIsSynthetic ==
    (/\ unit_pc = "returned"
     /\ unit_in.op = "is_synthetic_class"
     /\ HasKnownLambdaSuffix(unit_in.class_name))
        => unit_out.is_synthetic

\* a lambda name flagged although nothing in the content says synthetic
C22_Witness ==
    /\ unit_pc = "returned"
    /\ unit_in.op = "is_synthetic_class"
    /\ unit_in.class_name = <<"com/a/A", "$", "$", "Lambda", "0">>
    /\ ~unit_in.content.synthetic_word
    /\ ~unit_in.content.d8_marker
    /\ unit_out.is_synthetic

\* the place of a position of the run in the order of its stages: before
\* indexing, indexed, retrieving, attributing, and over (assembled or raised)
StageRank(position) ==
    CASE position = "constructed" -> 0
      [] position \in {"set_up", "setup_raised"} -> 1
      [] position = "retrieving" -> 2
      [] position = "attributing" -> 3
      [] OTHER -> 4

\* the retrieval of every requested behaviour has returned or raised
RetrievalFinished ==
    \A i \in 1..Len(retrievals) : retrievals[i].st \in {"returned", "raised"}

\* every attribution unit of every behaviour has finished
AttributionFinished ==
    \A t \in 1..Len(analyses) :
        /\ analyses[t].st \in {"returned", "raised"}
        /\ NoPending(analyses[t].outcomes)

\* C23: a run goes through its stages in order and never back (a step that
\* lowers the stage is the start of the next run); no attribution unit exists
\* before every retrieval has returned or raised, and the summary and the
\* report are assembled only when every attribution unit has finished.
C23_StagesInOrder ==
    /\ [](analyses # <<>> => RetrievalFinished)
    /\ []((results_summary # <<>> \/ report # <<>>) =>
             (RetrievalFinished /\ AttributionFinished))
    /\ [][\/ StageRank(pc') >= StageRank(pc)
          \/ /\ pc \in {"done", "raised", "setup_raised", "raised_not_set_up"}
             /\ pc' = "constructed"]_vars
    /\ [][(analyses = <<>> /\ analyses' # <<>>) =>
             (RetrievalFinished /\ pc = "retrieving" /\ pc' = "attributing")]_vars
    /\ [][(report = <<>> /\ report' # <<>>) =>
             (AttributionFinished /\ pc = "attributing" /\ pc' = "done")]_vars

\* a finished run of two behaviours with an attributed class
C23_Witness ==
    /\ pc = "done"
    /\ Len(retrievals) >= 2
    /\ \E t \in 1..Len(analyses) : Len(analyses[t].class_results) >= 1

\* a similarity query of retrieval i has been answered
QueryAnswered(i) == retrievals[i].st \in {"assessing", "returned"}

\* C24: within a run the index is written once, in setup_system, before any
\* similarity query: the engine and its vector store change only in the step
\* of setup_system (and when the next run constructs a new analyzer), the
\* persisted store changes only there too, every answered query was answered
\* from the vector store the engine holds, and so all queries of a run see
\* the same index.
C24_IndexWrittenOnceBeforeQueries ==
    /\ [](pc \in {"retrieving", "attributing", "done"} =>
             /\ analyzer.retrieval_engine.set
             /\ analyzer.retrieval_engine.vectorstore.set)
    /\ [](\A i \in 1..Len(retrievals) :
             QueryAnswered(i) =>
                 retrievals[i].index_of = analyzer.retrieval_engine.vectorstore.index_of)
    /\ [](\A i, j \in 1..Len(retrievals) :
             (QueryAnswered(i) /\ QueryAnswered(j)) =>
                 retrievals[i].index_of = retrievals[j].index_of)
    /\ [][analyzer.retrieval_engine' # analyzer.retrieval_engine =>
             \/ pc = "constructed" /\ pc' = "set_up"
                    /\ analyzer.retrieval_engine'.vectorstore.set
             \/ pc' = "constructed" /\ ~analyzer.retrieval_engine'.set]_vars
    /\ [][persist_directory' # persist_directory =>
             (pc = "constructed" /\ pc' = "set_up")]_vars

\* two behaviours whose queries were answered and whose assessments are in
\* flight together
C24_Witness ==
    /\ pc = "retrieving"
    /\ \E i, j \in 1..Len(retrievals) :
          /\ i # j
          /\ retrievals[i].st = "assessing"
          /\ retrievals[j].st = "assessing"

\* the explanation a relevance response states (every response the run draws
\* has its Explanation line second)
StatedExplanation(outcome) == <<outcome.lines[2].text>>

\* the report entry the behaviour of retrieval task i is due, from the
\* responses its own units got: each class with the score and explanation of
\* its own assessment and the findings of its own attribution call, which is
\* call c of the r-th behaviour whose retrieval did not raise
OwnEntry(r, i) ==
    LET docs == retrievals[i].docs_and_scores
        outcomes == retrievals[i].outcomes
        due == DueRanks(docs, outcomes, relevance_threshold_config)
    IN  [behavior_id |-> retrievals[i].behavior_id,
         behavior_description |-> BehaviorDescription(retrievals[i].behavior_id),
         relevant_classes |->
            [c \in 1..Len(due) |->
                [class_signature |-> <<"L", docs[due[c]].class_name, ";">>,
                 class_explanation |-> StatedExplanation(outcomes[CallOf(docs, due[c])]),
                 vector_similarity_score |-> docs[due[c]].score,
                 llm_relevance_score |-> AssessedIn(docs, outcomes, due[c]),
                 involved_methods |-> DueMethods(analyses[r].outcomes[c])]]]

\* C25: whatever order the units of a gather completed in, the report of a
\* finished run is the one the responses determine: each score and
\* explanation with the candidate it was computed for, each finding list
\* with its class, each class list with its behaviour, failed units included.
C25_ReportDeterminedByResponses ==
    pc = "done" =>
        report[1] = [app_name |-> analyzer.smali_folder,
                     total_behaviors_analyzed |-> Len(Succeeded),
                     behaviors |-> [r \in 1..Len(Succeeded) |->
                                       OwnEntry(r, Succeeded[r])]]

\* a finished run with a behaviour whose first candidate's assessment failed
\* and whose second passed, and a behaviour of two classes whose first
\* attribution call failed and whose second answered
C25_Witness ==
    /\ pc = "done"
    /\ \E i \in 1..Len(retrievals) :
          /\ Len(retrievals[i].outcomes) = 2
          /\ retrievals[i].outcomes[1] = LLMRaises
          /\ Len(retrievals[i].result) = 1
    /\ \E t \in 1..Len(analyses) :
          /\ Len(analyses[t].outcomes) = 2
          /\ analyses[t].outcomes[1] = LLMRaises
          /\ analyses[t].outcomes[2] # LLMRaises

\* analyze_behaviors has returned a report or raised
RunOver == pc \in {"done", "raised"}

ClassUnitRaised ==
    \E t \in 1..Len(analyses) :
        \E c \in 1..Len(analyses[t].outcomes) : analyses[t].outcomes[c] = RaisesOutsideTry

BehaviourUnitRaised ==
    \E t \in 1..Len(analyses) : analyses[t].st = "raised"

RECURSIVE ReturnedFrom(_)
ReturnedFrom(t) ==
    IF t > Len(analyses) THEN <<>>
    ELSE (IF analyses[t].st = "returned" THEN <<t>> ELSE <<>>) \o ReturnedFrom(t + 1)

HitNames ==
    {unit_in.index[i] : i \in {j \in 1..Len(unit_in.index) : j <= 2 * top_k_classes}}

\* C29: a call of retrieve_classes_for_behavior makes one similarity query,
\* for 2 x top_k_classes candidates, and dispatches exactly one assessment
\* call for every class among the hits (none for a second hit of a class),
\* so never more than 2 x top_k_classes assessment calls.
C29_OneQueryOneAssessmentPerCandidate ==
    (unit_pc = "returned" /\ unit_in.op = "dispatch_assessments") =>
        /\ Len(unit_out.queries) = 1
        /\ unit_out.queries[1] = 2 * top_k_classes
        /\ \A name \in HitNames :
              Cardinality({t \in 1..Len(unit_out.tasks) :
                              unit_out.tasks[t].class_name = name}) = 1
        /\ \A t \in 1..Len(unit_out.tasks) : unit_out.tasks[t].class_name \in HitNames
        /\ Len(unit_out.tasks) <= 2 * top_k_classes

\* an index of more than 2 x top_k_classes documents whose best
\* 2 x top_k_classes hits name one class twice
C29_Witness ==
    /\ unit_pc = "returned"
    /\ unit_in.op = "dispatch_assessments"
    /\ Len(unit_in.index) > 2 * top_k_classes
    /\ Len(unit_out.docs_and_scores) = 2 * top_k_classes
    /\ Len(unit_out.tasks) = 2 * top_k_classes - 1

\* the places of the lines of a response that start with the tag
LinesTagged(outcome, tag) ==
    {n \in 1..Len(outcome.lines) : outcome.lines[n].tag = tag}

\* the response has no Score line, or its (last) Score line does not carry a
\* number
NoReadableScore(outcome) ==
    LET score_lines == LinesTagged(outcome, "Score:")
    IN  \/ score_lines = {}
        \/ ~outcome.lines[Max(score_lines)].ok

\* the text of the last Explanation line of the response, or the placeholder
FallbackExplanation(outcome) ==
    LET explanation_lines == LinesTagged(outcome, "Explanation:")
    IN  IF explanation_lines = {} THEN "No explanation available."
        ELSE outcome.lines[Max(explanation_lines)].text

\* C30: a candidate whose response has no Score line, or whose Score line
\* does not carry a number, is assessed without an exception, with score 0.0
\* and an explanation that opens with the response's Explanation line or,
\* without one, with the placeholder; under a positive threshold it is not
\* returned.
C30_MalformedScoreDefaultsToZero ==
    (unit_pc = "returned" /\ unit_in.op = "retrieve_classes_for_behavior") =>
        \A k \in 1..Len(unit_out.filtered_docs_and_scores) :
            NoReadableScore(unit_in.outcomes[k]) =>
                /\ ~unit_out.relevance_results[k].exception
                /\ unit_out.relevance_results[k].value.score = 0
                /\ unit_out.relevance_results[k].value.explanation[1] =
                       FallbackExplanation(unit_in.outcomes[k])
                /\ unit_in.threshold > 0 =>
                       \A j \in 1..Len(unit_out.returned) :
                           unit_out.returned[j].class_name #
                               unit_out.filtered_docs_and_scores[k].class_name

\* under a positive threshold a candidate whose response has an unreadable
\* Score line after a readable one is left out while the other is returned
C30_Witness ==
    /\ unit_pc = "returned"
    /\ unit_in.op = "retrieve_classes_for_behavior"
    /\ unit_in.threshold = 1
    /\ Len(unit_out.filtered_docs_and_scores) = 2
    /\ unit_in.outcomes[1] =
          LLMText(<<ScoreLine(90), ExplanationLine("uses the API"), BadScoreLine>>)
    /\ unit_in.outcomes[2] = LLMText(<<ScoreLine(90), ExplanationLine("uses the API")>>)
    /\ Len(unit_out.returned) = 1
    /\ unit_out.returned[1].class_name = unit_out.filtered_docs_and_scores[2].class_name

\* the text of the one line of the response that starts with the tag
TextTagged(outcome, tag) ==
    outcome.lines[CHOOSE n \in LinesTagged(outcome, tag) : TRUE].text

\* the response names relevant APIs
NamesApis(outcome) ==
    /\ LinesTagged(outcome, "Relevant APIs:") # {}
    /\ TextTagged(outcome, "Relevant APIs:") \notin {"", "None"}

\* C31: whatever the order of the Score, Explanation and Relevant APIs lines
\* of a response, the explanation of the class it assesses is the Explanation
\* text followed by the Relevant APIs text when the response names APIs, and
\* the Explanation text alone when the Relevant APIs line is absent, empty or
\* 'None'.
C31_ApisAppendedInEveryOrder ==
    (unit_pc = "returned" /\ unit_in.op = "retrieve_classes_for_behavior") =>
        \A k \in 1..Len(unit_out.returned) :
            \A c \in 1..Len(unit_out.filtered_docs_and_scores) :
                unit_out.filtered_docs_and_scores[c].class_name
                        = unit_out.returned[k].class_name =>
                    unit_out.returned[k].explanation =
                        (IF NamesApis(unit_in.outcomes[c])
                         THEN <<TextTagged(unit_in.outcomes[c], "Explanation:"),
                                " Relevant APIs: ",
                                TextTagged(unit_in.outcomes[c], "Relevant APIs:")>>
                         ELSE <<TextTagged(unit_in.outcomes[c], "Explanation:")>>)

\* the lines tagged tag of the record started at line i: those after i with
\* no METHOD line in between
RecordLinesOf(lines, i, tag) ==
    {j \in (i + 1)..Len(lines) :
        /\ lines[j].tag = tag
        /\ \A k \in (i + 1)..j : lines[k].tag # "METHOD:"}

ParseResponseReturned ==
    unit_pc = "returned" /\ unit_in.op = "_parse_method_analysis_response"

\* C32: parsing an attribution response yields exactly one finding per METHOD
\* line; each finding has the ROLE and the CONFIDENCE of the last such line
\* between its METHOD line and the next one (or the end), and the empty role
\* and 0.0 when there is none; ROLE and CONFIDENCE lines before the first
\* METHOD line create no record and change none; a response without a METHOD
\* line yields the empty list.
C32_OneFindingPerMethodLine ==
    ParseResponseReturned =>
        LET lines == unit_in.response
        IN  /\ Len(unit_out.returned) = Cardinality(MethodLinesOf(lines))
            /\ \A i \in MethodLinesOf(lines) :
                  \E p \in 1..Len(unit_out.returned) :
                      /\ unit_out.returned[p].method_signature = ToString(i)
                      /\ unit_out.returned[p].role_explanation =
                            IF RecordLinesOf(lines, i, "ROLE:") = {} THEN ""
                            ELSE lines[Max(RecordLinesOf(lines, i, "ROLE:"))].text
                      /\ unit_out.returned[p].relevance_score =
                            IF RecordLinesOf(lines, i, "CONFIDENCE:") = {} THEN 0
                            ELSE lines[Max(RecordLinesOf(lines, i, "CONFIDENCE:"))].num

\* a response that opens with a ROLE and a CONFIDENCE line, then has a record
\* with two ROLE lines and two CONFIDENCE lines: one finding, with the second
\* role and the second confidence
C32_Witness ==
    /\ ParseResponseReturned
    /\ unit_in.response =
          <<RoleLine("sends the message"), ConfidenceLine(80), MethodLine("3"),
            RoleLine("sends the message"), RoleLine("reads the inbox"),
            ConfidenceLine(30)>>
    /\ Len(unit_out.returned) = 1
    /\ unit_out.returned[1].role_explanation = "reads the inbox"
    /\ unit_out.returned[1].relevance_score = 30

ParseSmaliFileReturned == unit_pc = "returned" /\ unit_in.op = "parse_smali_file"

\* the method declarations of a file, in file order
MethodStartsOf(lines) ==
    SelectSeq([i \in 1..Len(lines) |-> i], LAMBDA i : lines[i] = MethodStartLine)

\* the span of the method declared at line i of a file: up to its end marker,
\* the first one after the declaration, or up to the end of the file
SpanOf(lines, i) ==
    LET ends == {j \in i..Len(lines) : lines[j] = EndMethodLine}
    IN  SubSeq(lines, i,
               IF ends = {} THEN Len(lines)
               ELSE CHOOSE j \in ends : \A k \in ends : j <= k)

\* C33: the content of a method record runs from its method-start marker to
\* its end-of-method marker, and to the end of the file when the method has
\* no end marker; it is never empty.  The lines that cleaning removes are
\* left out of the comparison.
C33_MethodContentSpansBlock ==
    ParseSmaliFileReturned =>
        LET starts == MethodStartsOf(unit_in.lines)
        IN  /\ Len(unit_out.methods) = Len(starts)
            /\ \A m \in 1..Len(starts) :
                  /\ unit_out.methods[m].content # <<>>
                  /\ clean_smali_content(unit_out.methods[m].content)
                        = clean_smali_content(SpanOf(unit_in.lines, starts[m]))

\* C34: the parser flags a class synthetic if and only if one of three
\* signals holds: the synthetic token is in the class declaration, the class
\* name has a known compiler-generated suffix, or the synthetic-source marker
\* string occurs in the body; a class with none of the three is not flagged,
\* whatever else its body holds.
C34_SyntheticIffOneOfThreeSignals ==
    (unit_pc = "returned" /\ unit_in.op = "parse_smali_file.is_synthetic") =>
        (unit_out.is_synthetic <=>
            \/ unit_in.declared_synthetic
            \/ HasKnownLambdaSuffix(unit_in.class_name)
            \/ \E i \in 1..Len(unit_in.body) :
                  unit_in.body[i] \in {D8SourceLine, D8StringLine})

RecordsRun == unit_in.op = "analyze_behaviors.records"

\* the class names the t-th behaviour selected
SelectedBy(t) ==
    {unit_in.docs_and_scores[t][i].class_name :
        i \in 1..Len(unit_in.docs_and_scores[t])}

\* C35: when the same class is selected for two behaviours of one run, each
\* behaviour has its own candidate record: in every order of the retrievals
\* and of the attachments, the record of a class under a behaviour holds the
\* explanation and the scores of that behaviour's assessment and, once
\* attached, that behaviour's findings, and the report shows them so.
C35_OwnRecordPerBehaviour ==
    RecordsRun =>
        \A t \in 1..Len(RecordBehaviorIds) :
            /\ unit_out.st[t] # "created" =>
                  Len(unit_out.class_results[t]) = Cardinality(SelectedBy(t))
            /\ \A k \in 1..Len(unit_out.class_results[t]) :
                  LET class_result == unit_out.heap[unit_out.class_results[t][k]]
                  IN  /\ class_result.class_name \in SelectedBy(t)
                      /\ class_result.explanation =
                            <<<<"relevant to behavior", RecordBehaviorIds[t]>>>>
                      /\ class_result.llm_relevance_score = 90
                      /\ \E i \in 1..Len(unit_in.docs_and_scores[t]) :
                            /\ unit_in.docs_and_scores[t][i].class_name
                                  = class_result.class_name
                            /\ unit_in.docs_and_scores[t][i].score
                                  = class_result.vector_similarity_score
                      /\ unit_out.st[t] = "retrieved" =>
                            class_result.involved_methods = <<>>
                      /\ unit_out.st[t] = "attached" =>
                            /\ Len(class_result.involved_methods) = 1
                            /\ Len(class_result.involved_methods[1]) = 1
                            /\ class_result.involved_methods[1][1].method_signature
                                  = <<"method of behavior", RecordBehaviorIds[t]>>
                      /\ unit_out.report # <<>> =>
                            LET shown == unit_out.report[1].behaviors[t].relevant_classes[k]
                            IN  /\ shown.class_signature
                                      = ClassSignature(class_result.class_name)
                                /\ shown.class_explanation =
                                      <<<<"relevant to behavior", RecordBehaviorIds[t]>>>>
                                /\ Len(shown.involved_methods) = 1
                                /\ shown.involved_methods[1].role_explanation
                                      = <<"role in behavior", RecordBehaviorIds[t]>>

\* both behaviours selected class 1, the retrieval of the second behaviour
\* returned first, and the report shows the class under each behaviour with
\* that behaviour's findings
C35_Witness ==
    /\ RecordsRun
    /\ unit_pc = "returned"
    /\ 1 \in SelectedBy(1) \cap SelectedBy(2)
    /\ Len(unit_out.heap) >= 2
    /\ unit_out.class_results[1] # <<>>
    /\ unit_out.class_results[2] # <<>>
    /\ unit_out.heap[unit_out.class_results[1][1]].class_name = 1
    /\ unit_out.heap[unit_out.class_results[2][1]].class_name = 1
    /\ unit_out.class_results[1][1] > unit_out.class_results[2][1]
    /\ unit_out.report[1].behaviors[1].relevant_classes[1].involved_methods[1]
          .method_signature = <<"method of behavior", 1>>
    /\ unit_out.report[1].behaviors[2].relevant_classes[1].involved_methods[1]
          .method_signature = <<"method of behavior", 2>>

\* the retrieval tasks that returned although no candidate of theirs was
\* assessed at or above the threshold
WithoutCandidate ==
    {i \in 1..Len(retrievals) :
        /\ retrievals[i].st = "returned"
        /\ PassingIn(retrievals[i].docs_and_scores, retrievals[i].outcomes,
                     relevance_threshold_config) = {}}

\* the place of retrieval task i among the tasks that did not raise
PlaceOf(i) == Cardinality({j \in 1..i : retrievals[j].st # "raised"})

\* C37: a valid behaviour whose retrieval succeeds without a candidate at or
\* above the threshold gets its _analyze_methods task like every other one;
\* the task returns at once, no method-attribution call is issued for it, and
\* the report shows the behaviour with an empty relevant_classes list.
C37_BehaviourWithoutCandidatesReported ==
    \A i \in WithoutCandidate :
        /\ retrievals[i].result = <<>>
        /\ pc \in {"attributing", "done"} =>
              /\ PlaceOf(i) <= Len(analyses)
              /\ analyses[PlaceOf(i)].behavior_id = retrievals[i].behavior_id
              /\ analyses[PlaceOf(i)].st = "returned"
              /\ analyses[PlaceOf(i)].outcomes = <<>>
              /\ analyses[PlaceOf(i)].class_results = <<>>
        /\ pc = "done" =>
              /\ PlaceOf(i) <= Len(report[1].behaviors)
              /\ report[1].behaviors[PlaceOf(i)] =
                    [behavior_id |-> retrievals[i].behavior_id,
                     behavior_description |->
                         BehaviorDescription(retrievals[i].behavior_id),
                     relevant_classes |-> <<>>]

\* a report of two behaviours: the candidates of the first were all assessed
\* below the threshold and it is shown without classes, before the second
\* with a class and its methods
C37_Witness ==
    /\ pc = "done"
    /\ Len(retrievals) = 2
    /\ 1 \in WithoutCandidate
    /\ retrievals[1].docs_and_scores # <<>>
    /\ \A k \in 1..Len(retrievals[1].outcomes) : retrievals[1].outcomes[k].kind = "text"
    /\ Len(report[1].behaviors) = 2
    /\ report[1].behaviors[1].behavior_id = retrievals[1].behavior_id
    /\ report[1].behaviors[1].relevant_classes = <<>>
    /\ Len(report[1].behaviors[2].relevant_classes) >= 1
    /\ Len(report[1].behaviors[2].relevant_classes[1].involved_methods) >= 1

\* C38: method attribution is issued exactly once for each class of the
\* behaviour's final candidate list, in its order, and for no other candidate:
\* none for a later document of a class already seen, for a candidate whose
\* assessment failed or was below the threshold, or for one cut by the top-k
\* truncation; so there are at most top_k_classes attribution calls.
C38_OneAttributionPerFinalClass ==
    unit_in.op = "_analyze_methods" =>
        LET docs == unit_in.docs_and_scores
            passing == PassingIn(docs, unit_in.outcomes, unit_in.threshold)
            due == DueRanks(docs, unit_in.outcomes, unit_in.threshold)
            tasks == unit_out.tasks
        IN  /\ unit_pc # "returned" => tasks = <<>>
            /\ unit_pc = "returned" =>
                  /\ Len(tasks) = Len(due)
                  /\ Len(tasks) <= top_k_classes
                  /\ \A c \in 1..Len(tasks) :
                        /\ tasks[c].class_name = docs[due[c]].class_name
                        /\ tasks[c].class_name = unit_out.class_results[c].class_name
                        /\ tasks[c].behavior_id = unit_in.behavior_id
                  /\ \A c, d \in 1..Len(tasks) :
                        c # d => tasks[c].class_name # tasks[d].class_name
                  /\ \A i \in 1..Len(docs) :
                        (\A j \in passing : docs[j].class_name # docs[i].class_name)
                            => \A c \in 1..Len(tasks) :
                                  tasks[c].class_name # docs[i].class_name

\* more candidates passed the threshold than top_k_classes allows: as many
\* calls as the limit, for the best of them
C38_Witness ==
    /\ unit_in.op = "_analyze_methods"
    /\ unit_pc = "returned"
    /\ Cardinality(PassingIn(unit_in.docs_and_scores, unit_in.outcomes,
                             unit_in.threshold)) > top_k_classes
    /\ Len(unit_out.tasks) = top_k_classes
    /\ unit_out.tasks[1].class_name # unit_in.docs_and_scores[1].class_name

(***************************************************************************)
(* The text-generation gate: LLM.generate_text under its semaphore and its *)
(* retry, called by description generation, relevance assessment and       *)
(* method attribution.                                                     *)
(***************************************************************************)
RequestKinds == {"describe", "assess", "attribute"}

\* The module whose llm object a caller uses.  smali_loader.py imports
\* "from .llm import LLM" and retrieval_engine.py "from llm import LLM": the
\* interpreter loads llm.py once under each of the two names, so each name has
\* its own LLM class, its own _instance and its own Semaphore.
ModuleOf(kind) ==
    IF kind = "describe" THEN "src.services.raml.llm" ELSE "llm"

\* an acquire that does not look at the counter
CanAcquire_Always(value) == TRUE

\* asyncio.Semaphore: a slot is taken while the counter is positive
CanAcquire(value) == value > 0

\* the order of the gathers of a run: load() gathers the descriptions and
\* returns before analyze_behaviors gathers the retrievals, whose assessments
\* are all over before the attributions are dispatched; a run that loads a
\* persisted index describes nothing
PhaseBefore(kind) ==
    CASE kind = "describe" -> {"imported"}
      [] kind = "assess" -> {"imported", "describe"}
      [] kind = "attribute" -> {"assess"}

Ended(request) == request.st \in {"returned", "raised"}

InitGate ==
    /\ NoUnit
    /\ NoRun
    /\ llm_phase = "not_imported"
    /\ semaphore = <<>>
    /\ requests = <<>>

\* importing main.py imports smali_loader.py and retrieval_engine.py, and each
\* runs its "llm = LLM()": LLM.__init__ builds one Semaphore per LLM class
ImportModules ==
    /\ llm_phase = "not_imported"
    /\ llm_phase' = "imported"
    /\ semaphore' = [m \in {ModuleOf(kind) : kind \in RequestKinds} |-> concurrency_limit]
    /\ UNCHANGED requests
    /\ UNCHANGED <<unit_vars, run_vars>>

\* asyncio.gather dispatches the generate_text calls of one kind
GatherRequests(kind) ==
    /\ llm_phase \in PhaseBefore(kind)
    /\ \A i \in 1..Len(requests) : Ended(requests[i])
    /\ \E n \in 1..MaxRequests :
          requests' = [i \in 1..n |->
                          [kind |-> kind, gate |-> ModuleOf(kind),
                           st |-> "waiting", attempt |-> 1, error |-> 0]]
    /\ llm_phase' = kind
    /\ UNCHANGED semaphore
    /\ UNCHANGED <<unit_vars, run_vars>>

\* async with self.semaphore: the attempt takes a slot and sends its request
Acquire(i) ==
    /\ requests[i].st = "waiting"
    /\ CanAcquire(semaphore[requests[i].gate])
    /\ semaphore' = [semaphore EXCEPT ![requests[i].gate] = @ - 1]
    /\ requests' = [requests EXCEPT ![i].st = "in_flight"]
    /\ UNCHANGED llm_phase
    /\ UNCHANGED <<unit_vars, run_vars>>

\* a gate that keeps the slot of an attempt that raised
ExitGate_KeepsOnRaise(value, raised) == IF raised THEN value ELSE value + 1

\* the end of "async with self.semaphore": the semaphore is released when the
\* block is left, by its return statement or by an exception
ExitGate(value, raised) == value + 1

\* the request is answered: the slot is released and generate_text returns
Returns(i) ==
    /\ requests[i].st = "in_flight"
    /\ semaphore' = [semaphore EXCEPT ![requests[i].gate] = ExitGate(@, FALSE)]
    /\ requests' = [requests EXCEPT ![i].st = "returned"]
    /\ UNCHANGED llm_phase
    /\ UNCHANGED <<unit_vars, run_vars>>

\* a retry that stops one attempt late
ShouldRetry_OneMore(attempt) == attempt <= stop_after_attempt

\* stop=stop_after_attempt(5): after a failed attempt the retry goes on while
\* the number of attempts made is below the stop
ShouldRetry(attempt) == attempt < stop_after_attempt

\* the request raises: the slot is released; the retry waits outside the gate
\* and attempts again, or re-raises the exception of this attempt
\* (reraise=True) after the last one.  error is the attempt whose exception
\* the retry holds.
Fails(i) ==
    /\ requests[i].st = "in_flight"
    /\ semaphore' = [semaphore EXCEPT ![requests[i].gate] = ExitGate(@, TRUE)]
    /\ requests' =
          [requests EXCEPT ![i] =
              IF ShouldRetry(@.attempt)
              THEN [@ EXCEPT !.st = "waiting", !.attempt = @ + 1,
                             !.error = requests[i].attempt]
              ELSE [@ EXCEPT !.st = "raised", !.error = requests[i].attempt]]
    /\ UNCHANGED llm_phase
    /\ UNCHANGED <<unit_vars, run_vars>>

NextGate ==
    \/ ImportModules
    \/ \E kind \in RequestKinds : GatherRequests(kind)
    \/ \E i \in 1..Len(requests) : Acquire(i)
    \/ \E i \in 1..Len(requests) : Returns(i)
    \/ \E i \in 1..Len(requests) : Fails(i)

SpecGate == InitGate /\ [][NextGate]_vars

\* The event loop keeps running the tasks that can run: while a call can
\* take a slot, or an attempt in flight can be answered or fail (the client
\* call has a timeout), one of these steps is taken in the end.
FairSpecGate ==
    /\ SpecGate
    /\ WF_vars(\E i \in 1..Len(requests) : Acquire(i) \/ Returns(i) \/ Fails(i))

InFlight == {i \in 1..Len(requests) : requests[i].st = "in_flight"}

InFlightAt(m) == {i \in InFlight : requests[i].gate = m}

\* C26: one generate_text call makes at most stop_after_attempt (5) attempts;
\* it returns at its first successful attempt (every attempt before it
\* failed) and makes no attempt after it has returned or raised; it raises
\* only when the fifth attempt has failed, and what it raises is the error of
\* that attempt.
C26_AtMostFiveAttempts ==
    /\ [](\A i \in 1..Len(requests) :
             /\ requests[i].attempt \in 1..5
             /\ requests[i].error = (IF requests[i].st = "raised"
                                     THEN requests[i].attempt
                                     ELSE requests[i].attempt - 1)
             /\ requests[i].st = "raised" =>
                    (requests[i].attempt = 5 /\ requests[i].error = 5))
    /\ [][\A i \in 1..Len(requests) :
             (Ended(requests[i]) /\ llm_phase' = llm_phase) =>
                 (Len(requests') = Len(requests) /\ requests'[i] = requests[i])]_vars
    /\ [][\A i \in 1..Len(requests) :
             (llm_phase' = llm_phase /\ Len(requests') = Len(requests)
              /\ requests'[i].attempt # requests[i].attempt) =>
                 /\ requests[i].st = "in_flight"
                 /\ requests'[i].attempt = requests[i].attempt + 1
                 /\ requests'[i].st = "waiting"]_vars

\* one call raised after its fifth attempt while another returned at its
\* third
C26_Witness ==
    \E i, j \in 1..Len(requests) :
        /\ requests[i].st = "raised"
        /\ requests[i].attempt = 5
        /\ requests[j].st = "returned"
        /\ requests[j].attempt = 3

\* C9 as stated: the text-generation requests in flight never exceed the
\* configured concurrency limit, and all callers go through one shared gate.
C9_OneSharedGate ==
    /\ Cardinality(InFlight) <= concurrency_limit
    /\ llm_phase # "not_imported" => Cardinality(DOMAIN semaphore) = 1

\* C9: the text-generation requests in flight, counted over description
\* generation, relevance assessments and method attributions together, never
\* exceed the configured concurrency limit.  The callers do not share one
\* gate: description generation goes through the semaphore of the LLM of
\* module src.services.raml.llm and assessment and attribution through the
\* semaphore of the LLM of module llm; each gate keeps its own requests within
\* the limit and at no moment are requests of both in flight.
C9_InFlightWithinLimit ==
    /\ Cardinality(InFlight) <= concurrency_limit
    /\ llm_phase # "not_imported" =>
          /\ DOMAIN semaphore = {"llm", "src.services.raml.llm"}
          /\ \A m \in DOMAIN semaphore :
                semaphore[m] = concurrency_limit - Cardinality(InFlightAt(m))
          /\ \A i \in 1..Len(requests) :
                requests[i].gate = (IF requests[i].kind = "describe"
                                    THEN "src.services.raml.llm" ELSE "llm")
          /\ \E m \in DOMAIN semaphore : InFlight = InFlightAt(m)

\* the gate of module llm is full of assessment requests, one of them a retry,
\* while another assessment waits
C9_Witness ==
    /\ llm_phase = "assess"
    /\ Cardinality(InFlight) = concurrency_limit
    /\ semaphore["llm"] = 0
    /\ semaphore["src.services.raml.llm"] = concurrency_limit
    /\ \E i \in 1..Len(requests) : requests[i].st = "waiting"
    /\ \E i \in InFlight : requests[i].attempt > 1

Waiting == {i \in 1..Len(requests) : requests[i].st = "waiting"}

\* C36: the gate never leaks a slot.  An attempt gives its slot back when it
\* returns and when it raises, and a call waiting for its next attempt holds
\* none: the free slots of a gate are the limit less the attempts in flight
\* at it, and the limit itself once every call has finished.  So a waiting
\* call always finds a free slot or an attempt in flight that will free one,
\* and the calls of a gather have all returned or raised in the end,
\* whichever of them fail or retry.
C36_NoSlotLeaked ==
    /\ [](llm_phase # "not_imported" =>
            /\ \A m \in DOMAIN semaphore :
                  /\ semaphore[m] = concurrency_limit - Cardinality(InFlightAt(m))
                  /\ (\A i \in 1..Len(requests) : Ended(requests[i]))
                        => semaphore[m] = concurrency_limit
            /\ \A i \in Waiting :
                  semaphore[requests[i].gate] > 0 \/ InFlightAt(requests[i].gate) # {})
    /\ [][\A i \in 1..Len(requests) :
             (requests[i].st = "in_flight" /\ Len(requests') = Len(requests)
              /\ requests'[i].st # "in_flight") =>
                 semaphore'[requests[i].gate] = semaphore[requests[i].gate] + 1]_vars
    /\ []<>(\A i \in 1..Len(requests) : Ended(requests[i]))

\* every call of a gather has finished, one of them raised after its last
\* attempt and another returned at a retry, and both gates are free again
C36_Witness ==
    /\ Len(requests) = MaxRequests
    /\ \A i \in 1..Len(requests) : Ended(requests[i])
    /\ \E i \in 1..Len(requests) : requests[i].st = "raised"
    /\ \E i \in 1..Len(requests) : requests[i].st = "returned" /\ requests[i].attempt > 1
    /\ \A m \in DOMAIN semaphore : semaphore[m] = concurrency_limit

====
